---------------------------- MODULE Spec2Model ----------------------------
(***************************************************************************)
(* Model of the synthetic OHLCV generator of the pgch benchmark            *)
(* (StreamingDataGenerator of the streaming loader, StockDataGenerator of  *)
(* the file generator: the two classes share their code line by line).     *)
(*                                                                         *)
(* Numbers.  The source computes in IEEE doubles.  The model computes in   *)
(* fixed point: a price is an integer count of 10^-6 units (Unit), a       *)
(* fraction (a draw of the generator, a volatility, a relative change) an  *)
(* integer count of 10^-8 units (Frac), a volume an integer count of 10^-3 *)
(* units (VolUnit); products and quotients are rounded to the nearest      *)
(* point of the grid.  The integer parts of the algorithm (the string      *)
(* hash, the congruential generator, the calendar) are modelled exactly.   *)
(* TLC's integers are 32 bits wide, so products that would leave that      *)
(* range are computed in pieces (MulFrac, LongDiv, Wide).                  *)
(***************************************************************************)
EXTENDS Integers, Sequences, FiniteSets, TLC

(***************************************************************************)
(* State.                                                                  *)
(***************************************************************************)
VARIABLES
  tz,            \* the host's time zone (environment)
  startDay,      \* startDate of generateTradingDays, as a day number
  endDay,        \* endDate of generateTradingDays, as a day number
  constructed,   \* whether the constructor has returned the generator
  tradingDays,   \* this.tradingDays: the day numbers of the stored dates
  iter,          \* per iterator: its position and its local variables
  out,           \* per iterator: the batches it has yielded, in order
  calls,         \* per iterator: its calls of generateStockPrice, in order
  rngX,          \* the state x of the closure of the latest seededRandom
  first,         \* the first direct call of generateStockPrice, if any
  between,       \* whether a direct call with other arguments followed it
  last,          \* the latest direct call of generateStockPrice, if any
  main,          \* the streaming loader's main(): its position and locals
  inserter,      \* the StreamingInserter: its counters and its requests
  seeder,        \* seedData(): its position, its locals and what it logged
  db,            \* the stock_data tables of the backends: the keys they hold
  probe,         \* the latest date seedData computed for a record, if any
  bench          \* the parallel benchmark: its position, connections and queries

\* The variables of the loaders.
loaderVars == <<main, inserter, seeder, db, probe, bench>>

vars == <<tz, startDay, endDay, constructed, tradingDays, iter, out, calls,
          rngX, first, between, last, loaderVars>>

(***************************************************************************)
(* Arithmetic helpers.  An operator that uses a value more than once binds *)
(* it first, as the one element of a set (Only({e(v) : v \in {x}})), so    *)
(* that it is computed once.                                               *)
(***************************************************************************)
Unit == 1000 * 1000          \* fixed-point units per 1.0 of a price
Frac == 10000 * 10000        \* fixed-point units per 1.0 of a fraction
VolUnit == Unit \div 1000    \* fixed-point units per 1.0 of a volume

Only(S) == CHOOSE x \in S : TRUE

Abs(a) == Only({IF v < 0 THEN 0 - v ELSE v : v \in {a}})          \* Math.abs
Max(a, b) == Only({IF v >= w THEN v ELSE w : v \in {a}, w \in {b}})  \* Math.max

\* a * b / 10^8 rounded to the nearest integer, for 0 <= a < 2 * 10^9 and
\* 0 <= b < 2 * 10^8: the product is summed from four-digit pieces so that
\* no intermediate leaves 32 bits.
MulFrac(a, b) ==
  LET a1  == a \div 10000
      a0  == a % 10000
      b1  == b \div 10000
      b0  == b % 10000
      mid == a1 * b0 + a0 * b1
      low == (mid % 10000) * 10000 + a0 * b0
  IN  a1 * b1 + (mid \div 10000) + (low \div Frac)
        + (IF 2 * (low % Frac) >= Frac THEN 1 ELSE 0)

\* x * f, f a fraction: the result is on the grid of x.
FMul(x, f) ==
  Only({IF (v < 0) = (w < 0) THEN MulFrac(Abs(v), Abs(w))
                             ELSE 0 - MulFrac(Abs(v), Abs(w))
        : v \in {x}, w \in {f}})

\* The first k decimal digits of r / y after the point, appended to the
\* digits q and rounded to the nearest in the last digit: long division,
\* 0 <= r < y < 2 * 10^8 (a price below 200).
RECURSIVE LongDiv(_, _, _, _)
LongDiv(r, q, k, y) ==
  Only({IF n = 0 THEN v + (IF 2 * u >= w THEN 1 ELSE 0)
        ELSE LongDiv((u * 10) % w, v * 10 + ((u * 10) \div w), n - 1, w)
        : u \in {r}, v \in {q}, n \in {k}, w \in {y}})

\* x / y as a fraction, 0 <= |x| < y.
FDiv(x, y) ==
  Only({IF v < 0 THEN 0 - LongDiv(0 - v, 0, 8, y) ELSE LongDiv(v, 0, 8, y)
        : v \in {x}})

\* Math.round(v * k) / k on a grid whose step is `step` units: the nearest
\* multiple of step, a tie going up (Math.round rounds half toward +infinity).
MathRound(v, step) == ((v + (step \div 2)) \div step) * step

(***************************************************************************)
(* 32-bit integers and numbers just beyond them.                           *)
(***************************************************************************)
\* A non-negative integer up to 2^31, which TLC's integers cannot all hold,
\* as hi * 65536 + lo.
Wide(n) == Only({[hi |-> v \div 65536, lo |-> v % 65536] : v \in {n}})

\* The value of a Wide below 2^31.
Narrow(w) == Only({v.hi * 65536 + v.lo : v \in {w}})

\* (31 * hash + char) wrapped to a signed 32-bit integer: (hash << 5) - hash
\* + char followed by hash & hash.
HashStep(hash, char) ==
  Only({LET hh == h \div 65536              \* floor: -32768 .. 32767
            hl == h % 65536                 \* 0 .. 65535
            t  == 31 * hl + char
            lo == t % 65536
            hi == (31 * hh + (t \div 65536)) % 65536
        IN  (IF hi >= 32768 THEN hi - 65536 ELSE hi) * 65536 + lo
        : h \in {hash}})

\* A faulty end of hashCode: return hash, without Math.abs.
MathAbs32None(hash) == Wide(hash)

\* Math.abs of a signed 32-bit integer, as a Wide (|-2^31| = 2^31).
MathAbs32(hash) ==
  Only({IF h >= 0 THEN Wide(h)
        ELSE LET n == 0 - (h + 1)
             IN  IF n % 65536 = 65535 THEN [hi |-> (n \div 65536) + 1, lo |-> 0]
                 ELSE [hi |-> n \div 65536, lo |-> (n % 65536) + 1]
        : h \in {hash}})

\* The loop of hashCode from index i on, hash being the hash so far.
RECURSIVE hashLoop(_, _, _)
hashLoop(str, i, hash) ==
  Only({IF k > Len(s) THEN h ELSE hashLoop(s, k + 1, HashStep(h, s[k]))
        : s \in {str}, k \in {i}, h \in {hash}})

\* hashCode(str): str is the sequence of the string's UTF-16 code units.
hashCode(str) == MathAbs32(hashLoop(str, 1, 0))

(***************************************************************************)
(* Strings: a string is the sequence of its character codes.               *)
(***************************************************************************)
Digit(k) == 48 + k                     \* the character code of a digit
Dash == 40 + 5                         \* the character code of '-'

\* Number.prototype.toString() of an integer.
RECURSIVE toString(_)
toString(n) ==
  Only({IF v < 0 THEN <<Dash>> \o toString(0 - v)
        ELSE IF v < 10 THEN <<Digit(v)>>
        ELSE Append(toString(v \div 10), Digit(v % 10)) : v \in {n}})

Pad2(n) == <<Digit(n \div 10), Digit(n % 10)>>

(***************************************************************************)
(* Dates.  A Date holds a UTC instant; the model counts it in hours since  *)
(* 2014-01-01T00:00Z (a Wednesday).  A day number counts days since        *)
(* 2014-01-01.  The host's time zone is part of the environment: std is    *)
(* its standard offset east of UTC in hours, and daylight saving time adds *)
(* one hour from dstHour:00 standard time of local day dstFrom to          *)
(* dstHour:00 daylight time of local day dstTo (none when dstFrom =        *)
(* dstTo).                                                                 *)
(***************************************************************************)
DaysInYear(y) ==
  IF y % 400 = 0 THEN 366
  ELSE IF y % 100 = 0 THEN 365
  ELSE IF y % 4 = 0 THEN 366 ELSE 365

DaysInMonth(y, m) ==
  IF m = 2 THEN DaysInYear(y) - 337
  ELSE IF m \in {4, 6, 9, 11} THEN 30 ELSE 31

\* <<year, day of the year (from 0)>> of day number n counted from 1 Jan of y.
RECURSIVE YearAndDay(_, _)
YearAndDay(n, y) ==
  Only({IF v < 0 THEN YearAndDay(v + DaysInYear(w - 1), w - 1)
        ELSE IF v >= DaysInYear(w) THEN YearAndDay(v - DaysInYear(w), w + 1)
        ELSE <<w, v>> : v \in {n}, w \in {y}})

\* <<month, day of the month>> of day n (from 0) of year y, counted from month m.
RECURSIVE MonthAndDay(_, _, _)
MonthAndDay(n, y, m) ==
  Only({IF v >= DaysInMonth(y, w) THEN MonthAndDay(v - DaysInMonth(y, w), y, w + 1)
        ELSE <<w, v + 1>> : v \in {n}, w \in {m}})

\* d.toISOString().split('T')[0]: the UTC calendar date, "YYYY-MM-DD".
ISODate(t) ==
  Only({Only({toString(yd[1]) \o <<Dash>> \o Pad2(md[1]) \o <<Dash>> \o Pad2(md[2])
              : md \in {MonthAndDay(yd[2], yd[1], 1)}})
        : yd \in {YearAndDay(t \div 24, 2014)}})

\* The host's offset from UTC at the UTC instant t.
OffsetAtUTC(zone, t) ==
  IF zone.dstFrom < zone.dstTo
     /\ t + zone.std >= zone.dstFrom * 24 + zone.dstHour
     /\ t + zone.std < zone.dstTo * 24 + zone.dstHour - 1
  THEN zone.std + 1 ELSE zone.std

\* The host's offset from UTC at the local wall-clock time l.
OffsetAtLocal(zone, l) ==
  IF zone.dstFrom < zone.dstTo
     /\ l >= zone.dstFrom * 24 + zone.dstHour + 1
     /\ l < zone.dstTo * 24 + zone.dstHour
  THEN zone.std + 1 ELSE zone.std

\* d.getDay(): the day of the week of the LOCAL date, 0 = Sunday.
getDay(zone, t) == (((t + OffsetAtUTC(zone, t)) \div 24) + 3) % 7

\* d.setDate(d.getDate() + 1): the same local wall-clock time on the next
\* local date.
setDatePlusOne(zone, t) ==
  Only({l - OffsetAtLocal(zone, l) : l \in {t + OffsetAtUTC(zone, t) + 24}})

\* d.setDate(d.getDate() + n): the same local wall-clock time n local dates
\* later.
setDatePlus(zone, t, n) ==
  Only({l - OffsetAtLocal(zone, l) : l \in {t + OffsetAtUTC(zone, t) + 24 * n}})

\* new Date('YYYY-MM-DD') of day number n: midnight UTC of that date.
NewDate(n) == n * 24

\* A faulty loop: the test d <= endDate made after the body (do ... while).
RECURSIVE tradingDaysDoWhile(_, _, _)
tradingDaysDoWhile(zone, d, endDate) ==
  Only({(IF getDay(zone, t) # 0 /\ getDay(zone, t) # 6
         THEN <<t \div 24>> ELSE <<>>)
          \o (IF setDatePlusOne(zone, t) <= endDate
              THEN tradingDaysDoWhile(zone, setDatePlusOne(zone, t), endDate)
              ELSE <<>>) : t \in {d}})

\* The loop of generateTradingDays from the Date d on: the dates pushed,
\* each as the day number of d.toISOString().split('T')[0].
RECURSIVE tradingDaysFrom(_, _, _)
tradingDaysFrom(zone, d, endDate) ==
  Only({IF t <= endDate
        THEN (IF getDay(zone, t) # 0 /\ getDay(zone, t) # 6
              THEN <<t \div 24>> ELSE <<>>)
               \o tradingDaysFrom(zone, setDatePlusOne(zone, t), endDate)
        ELSE <<>> : t \in {d}})

\* The Date d after k runs of the loop's update d.setDate(d.getDate() + 1),
\* computed by halving k.
RECURSIVE DateAfter(_, _, _)
DateAfter(zone, d, k) ==
  Only({IF n = 0 THEN t
        ELSE IF n = 1 THEN setDatePlusOne(zone, t)
        ELSE DateAfter(zone, DateAfter(zone, t, n \div 2), n - (n \div 2))
        : t \in {d}, n \in {k}})

\* The dates pushed by the next k runs of the loop of generateTradingDays
\* from the Date d on, computed by halving k.  d only grows, so that a run
\* with d > endDate is a run the loop does not make.
RECURSIVE tradingDaysOfRuns(_, _, _, _)
tradingDaysOfRuns(zone, d, endDate, k) ==
  Only({IF n = 0 THEN <<>>
        ELSE IF n = 1
        THEN (IF t <= endDate /\ getDay(zone, t) # 0 /\ getDay(zone, t) # 6
              THEN <<t \div 24>> ELSE <<>>)
        ELSE tradingDaysOfRuns(zone, t, endDate, n \div 2)
               \o tradingDaysOfRuns(zone, DateAfter(zone, t, n \div 2), endDate,
                                    n - (n \div 2))
        : t \in {d}, n \in {k}})

\* The longest calendar, in days, that the model evaluates run by run.
RunByRunDays == 12

\* generateTradingDays(): this.tradingDays after the constructor.  The loop
\* is evaluated run by run (tradingDaysFrom) for a short calendar and by
\* halving for a long one, whose runs number at most one a day and two more
\* (a run moves d on by 23 hours at least).
generateTradingDays(zone, startDate, endDate) ==
  IF endDate - startDate <= RunByRunDays
  THEN tradingDaysFrom(zone, NewDate(startDate), NewDate(endDate))
  ELSE tradingDaysOfRuns(zone, NewDate(startDate), NewDate(endDate),
                         endDate - startDate + 3)

(***************************************************************************)
(* The seeded generator and the price record.                              *)
(***************************************************************************)
LcgMultiplier == 9301
LcgIncrement == 49297
LcgModulus == 233280

\* A faulty seededRandom: x is one variable shared by all closures and is
\* seeded only while it is unset, so a call goes on from where the call
\* before it stopped.
seededRandomShared(seed) == IF rngX = <<>> THEN seed ELSE rngX[1]

\* seededRandom(seed): the state x of the closure it returns; let x = seed.
seededRandom(seed) == seed

\* A faulty closure: the increment left out, x = (x * 9301) % 233280.
rngNextNoIncrement(x) ==
  Only({Wide((((xm * (LcgMultiplier \div 100)) % LcgModulus) * 100
                + xm * (LcgMultiplier % 100)) % LcgModulus)
        : xm \in {((((x.hi * 256) % LcgModulus) * 256) + x.lo) % LcgModulus}})

\* One call of the closure: x = (x * 9301 + 49297) % 233280.  The product is
\* taken modulo 233280 piecewise (9301 = 93 * 100 + 1); the value is exact.
rngNext(x) ==
  Only({Only({Wide((((((xm * (LcgMultiplier \div 100)) % LcgModulus) * 100
                       + xm * (LcgMultiplier % 100)) % LcgModulus)
                     + LcgIncrement) % LcgModulus)
              : xm \in {((((v.hi * 256) % LcgModulus) * 256) + v.lo) % LcgModulus}})
        : v \in {x}})

\* What that call returns, x / 233280, as a fraction.
rngValue(x) == FDiv(Narrow(x), LcgModulus)

\* The states the closure goes through in n successive calls from state x.
RECURSIVE rngStates(_, _)
rngStates(x, n) ==
  IF n = 0 THEN <<>>
  ELSE Only({<<y>> \o rngStates(y, n - 1) : y \in {rngNext(x)}})

\* The optional previousClose: <<>> is undefined, <<c>> the number c.
undefined == <<>>
Some(c) == <<c>>

\* The remainder operator a % b of the source for b > 0: the result has the
\* sign of a.
JsRem(a, b) == Only({IF v < 0 THEN 0 - ((0 - v) % b) ELSE v % b : v \in {a}})

\* basePrice = 50 + (instrumentId % 1000) * 0.1
basePriceOf(instrumentId) == 50 * Unit + JsRem(instrumentId, 1000) * (Unit \div 10)

\* previousClose || basePrice: undefined and 0 are falsy.
startPriceOf(previousClose, basePrice) ==
  IF previousClose # undefined /\ previousClose[1] # 0
  THEN previousClose[1] ELSE basePrice

\* A faulty volatility: 0.005 + rng() * 0.45.
volatilityOfWide(r1) == 5 * (Frac \div 1000) + FMul(r1, 45 * (Frac \div 100))

\* volatility = 0.005 + rng() * 0.045
volatilityOf(r1) == 5 * (Frac \div 1000) + FMul(r1, 45 * (Frac \div 1000))

\* openChange = (rng() - 0.5) * volatility * 2
openChangeOf(r2, volatility) == FMul(FMul(r2 - (Frac \div 2), volatility), 2 * Frac)

\* A faulty floor of open: Math.max(0, startPrice * (1 + openChange)).
openPriceFloorZero(startPrice, openChange) ==
  Max(0, FMul(startPrice, Frac + openChange))

\* open = Math.max(0.01, startPrice * (1 + openChange))
openPrice(startPrice, openChange) ==
  Max(Unit \div 100, FMul(startPrice, Frac + openChange))

\* intradayVolatility = volatility * 0.5
intradayVolatilityOf(volatility) == FMul(volatility, Frac \div 2)

\* highChange = rng() * intradayVolatility;
\* high = open * (1 + Math.abs(highChange))
highPrice(open, r3, intradayVolatility) ==
  FMul(open, Frac + Abs(FMul(r3, intradayVolatility)))

\* lowChange = -rng() * intradayVolatility
lowChangeOf(r4, intradayVolatility) == 0 - FMul(r4, intradayVolatility)

\* A faulty low: the sign of lowChange applied twice, open * (1 - lowChange).
lowPriceSignSlip(open, lowChange) == FMul(open, Frac - lowChange)

\* A faulty low: the 1 + dropped, open * lowChange.
lowPriceNoBase(open, lowChange) == FMul(open, lowChange)

\* low = open * (1 + lowChange)
lowPrice(open, lowChange) == FMul(open, Frac + lowChange)

\* closeRatio = rng(); close = low + (high - low) * closeRatio
closePrice(low, high, closeRatio) ==
  Only({l + FMul(high - l, closeRatio) : l \in {low}})

\* priceMovement = Math.abs((close - open) / open).  A quotient by 0 is not
\* a number; the model leaves it 0 and the record of the locals keeps open,
\* the divisor.
priceMovementOf(open, close) ==
  Only({IF o = 0 THEN 0 ELSE Abs(FDiv(close - o, o)) : o \in {open}})

\* baseVolume = 100000 + (instrumentId % 10000) * 10
baseVolumeOf(instrumentId) == 100000 + JsRem(instrumentId, 10000) * 10

\* volumeMultiplier = 1 + priceMovement * 5
volumeMultiplierOf(priceMovement) == Frac + FMul(priceMovement, 5 * Frac)

\* baseVolume * volumeMultiplier * (0.5 + rng()), the argument of Math.round
\* at line 70.
rawVolumeOf(instrumentId, open, close, r6) ==
  FMul(FMul(baseVolumeOf(instrumentId) * VolUnit,
            volumeMultiplierOf(priceMovementOf(open, close))),
       (Frac \div 2) + r6)

\* A faulty rounding of the volume: Math.floor in place of Math.round.
volumeOfFloor(rawVolume) == (rawVolume \div VolUnit) * VolUnit

\* volume = Math.round(...)
volumeOf(rawVolume) == MathRound(rawVolume, VolUnit)

\* A faulty rounding of a price: Math.round(p * 100000) / 100000.
roundPriceFiveDecimals(p) == MathRound(p, Unit \div 100000)

\* Math.round(p * 10000) / 10000
roundPrice(p) == MathRound(p, Unit \div 10000)

\* Math.round(volume * 100) / 100
roundVolume(v) == MathRound(v, VolUnit \div 100)

\* The rest of generateStockPrice once open is known: lines 57 to 78.  The
\* record returned carries, besides the five fields of the source, x (the
\* state in which the call leaves its closure) and locals (the values of
\* the constants of the function body, unrounded).
dayPrices(instrumentId, seed, xs, startPrice, volatility, openChange, open) ==
  Only({Only({Only({
    [x      |-> xs[6],
     open   |-> roundPrice(open),
     high   |-> roundPrice(hl[1]),
     low    |-> roundPrice(hl[2]),
     close  |-> roundPrice(close),
     volume |-> roundVolume(volumeOf(rawVolume)),
     locals |-> [seed |-> seed, xs |-> xs, startPrice |-> startPrice,
                 volatility |-> volatility, openChange |-> openChange,
                 open |-> open, high |-> hl[1], low |-> hl[2], close |-> close,
                 rawVolume |-> rawVolume, volume |-> volumeOf(rawVolume)]]
    : rawVolume \in {rawVolumeOf(instrumentId, open, close, rngValue(xs[6]))}})
    : close \in {closePrice(hl[2], hl[1], rngValue(xs[5]))}})
    : hl \in {<<highPrice(open, rngValue(xs[3]), intradayVolatilityOf(volatility)),
                lowPrice(open, lowChangeOf(rngValue(xs[4]),
                                           intradayVolatilityOf(volatility)))>>}})

\* generateStockPrice(instrumentId, date, previousClose).  date is the day
\* number of the ISO date string.  xs[n] is the state of the closure after
\* the n-th call of rng(): the six calls are, in the order of the source,
\* the draws of volatility, openChange, highChange, lowChange, closeRatio and
\* the volume factor.
generateStockPrice(instrumentId, date, previousClose) ==
  Only({Only({Only({Only({
    dayPrices(instrumentId, seed, xs, startPrice, volatility, openChange,
              openPrice(startPrice, openChange))
    : openChange \in {openChangeOf(rngValue(xs[2]), volatility)},
      startPrice \in {startPriceOf(previousClose, basePriceOf(instrumentId))}})
    : volatility \in {volatilityOf(rngValue(xs[1]))}})
    : xs \in {rngStates(seededRandom(seed), 6)}})
    : seed \in {hashCode(toString(instrumentId) \o ISODate(NewDate(date)))}})

(***************************************************************************)
(* Bounds of the model.                                                    *)
(***************************************************************************)
\* The source writes the calendar's two dates as literals, 2014-01-01 and
\* 2023-12-31.  The model keeps the start and lets the end range over day -1
\* (2013-12-31, before the start) .. MaxEndDay.
MaxEndDay == 6
\* BATCH_SIZE of the source is 10000; the model scales it down so that both
\* yields of generateInstrumentChunk happen within the modelled calendar.
BATCH_SIZE == 2
\* An instrument range holds at most MaxSpan instruments.
MaxSpan == 2

\* The first instrument ids of the ranges the model drives.
StartIds == {1, 41, 42, 999999}

\* Host time zones: UTC, New York (UTC-5, daylight saving time from
\* 2014-03-09 to 2014-11-02), Berlin (UTC+1, daylight saving time from
\* 2014-03-30 to 2014-10-26).  Zones are those the generator is run in.
UTC == [std |-> 0, dstFrom |-> 0, dstTo |-> 0, dstHour |-> 2]
NewYork == [std |-> 0 - 5, dstFrom |-> 67, dstTo |-> 305, dstHour |-> 2]
Berlin == [std |-> 1, dstFrom |-> 88, dstTo |-> 298, dstHour |-> 2]
\* Cairo (UTC+2): in 2014 daylight saving time began at the end of Thursday
\* 2014-05-15 (00:00 of 2014-05-16) and was suspended at the end of
\* 2014-06-26.
Cairo == [std |-> 2, dstFrom |-> 135, dstTo |-> 177, dstHour |-> 0]
Zones == {UTC, NewYork, Berlin}

\* The generator objects (iterators) of generateInstrumentChunk in the model.
Iters == {1, 2}

\* The arguments of the direct calls of generateStockPrice the model makes.
DirectIds == {1, 42, 999999}
DirectDates == {0, 1}
DirectCloses ==
  {undefined, Some(0), Some(0 - Unit), Some(Unit \div 10000),
   Some(54 * Unit + 913400), Some(150 * Unit)}

\* An iterator that does not exist (no call of generateInstrumentChunk yet).
NoIter == [pc |-> "none", startId |-> 0, endId |-> 0, instrumentId |-> 0,
           idx |-> 0, previousClose |-> undefined, batch |-> <<>>]

\* main() at its start, with the startId of line 221.
NoMain == [pc |-> "connect", startId |-> 1, endId |-> 0, processedInstruments |-> 0]

\* new StreamingInserter(): no connection open, no record inserted, no
\* request made.
NoInserter ==
  [pgOpen |-> FALSE, chOpen |-> FALSE,
   pgInsertCount |-> 0, chInsertCount |-> 0,
   pgSent |-> <<>>, pgSettled |-> 0, pgRejected |-> FALSE,
   chSent |-> <<>>, chSettled |-> 0, chRejected |-> FALSE]

\* seedData() before its loops: lines 203 to 206.
NoSeed ==
  [pc |-> "loop", instrument |-> 1, record |-> 0, totalInserted |-> 0,
   batch |-> <<>>, final |-> FALSE, existing |-> {}, stored |-> {},
   chFailures |-> 0,
   calls |-> <<>>, logged |-> 0]

\* Empty stock_data tables in PostgreSQL, in ClickHouse and in TimescaleDB.
EmptyDb == [pg |-> {}, ch |-> {}, ts |-> {}]

\* The parallel benchmark before runParallelBenchmarks is called: it is at
\* the head of the loop over the concurrency levels, with no connection.
NoBench ==
  [pc |-> "level", level |-> 1, database |-> "pg", concurrency |-> 0,
   queries |-> <<>>, conn |-> [pg |-> <<>>, ch |-> <<>>], issued |-> <<>>,
   result |-> <<>>, failed |-> FALSE, logged |-> FALSE,
   leaked |-> {}]

\* The generator before its construction, on a host in one of the zones and
\* with the calendar's end on one of the days endDays.
InitGeneratorIn(zones, endDays) ==
  /\ tz \in zones
  /\ startDay = 0
  /\ endDay \in endDays
  /\ constructed = FALSE
  /\ tradingDays = <<>>
  /\ iter = [i \in Iters |-> NoIter]
  /\ out = [i \in Iters |-> <<>>]
  /\ calls = [i \in Iters |-> <<>>]
  /\ rngX = <<>>
  /\ first = <<>>
  /\ between = FALSE
  /\ last = <<>>

\* The generator before its construction.
InitGenerator == InitGeneratorIn(Zones, (0 - 1) .. MaxEndDay)

Init ==
  /\ InitGenerator
  /\ main = NoMain
  /\ inserter = NoInserter
  /\ seeder = NoSeed
  /\ db = EmptyDb
  /\ probe = <<>>
  /\ bench = NoBench

(***************************************************************************)
(* new StreamingDataGenerator(): the constructor runs generateTradingDays  *)
(* and returns; it has no other exit.                                      *)
(***************************************************************************)
Construct ==
  /\ ~constructed
  /\ tradingDays' = generateTradingDays(tz, startDay, endDay)
  /\ constructed' = TRUE
  /\ UNCHANGED <<tz, startDay, endDay, iter, out, calls, rngX, first, between, last>>
  /\ UNCHANGED loaderVars

\* The object generateStockPrice returns: lines 72 to 78.
Returned(priceData) ==
  [open |-> priceData.open, high |-> priceData.high, low |-> priceData.low,
   close |-> priceData.close, volume |-> priceData.volume]

\* Whether two recorded calls were made with the same three arguments.
SameArguments(c, d) ==
  /\ c.instrument_id = d.instrument_id
  /\ c.date = d.date
  /\ c.previousClose = d.previousClose

(***************************************************************************)
(* generator.generateStockPrice(instrumentId, date, previousClose) called  *)
(* directly.  first and last keep the arguments and the record returned.   *)
(***************************************************************************)
DirectCall(instrumentId, date, previousClose) ==
  /\ constructed
  /\ \E priceData \in {generateStockPrice(instrumentId, date, previousClose)} :
       /\ last' = <<[instrument_id |-> instrumentId, date |-> date,
                     previousClose |-> previousClose,
                     priceData |-> Returned(priceData),
                     locals |-> priceData.locals]>>
       /\ first' = IF first = <<>> THEN last' ELSE first
       /\ between' = (between \/ (first # <<>> /\ ~SameArguments(first[1], last'[1])))
       /\ rngX' = <<priceData.x>>
  /\ UNCHANGED <<tz, startDay, endDay, constructed, tradingDays, iter, out, calls>>
  /\ UNCHANGED loaderVars

(***************************************************************************)
(* generateInstrumentChunk.  One call of next() runs the generator body    *)
(* from where it is suspended to its next yield or to its end.  The loop   *)
(* state st holds the locals, the yielded value if any (yielded), the      *)
(* calls of generateStockPrice made in this run (made) and the closure     *)
(* state the latest of them left (x).                                      *)
(***************************************************************************)
\* The record pushed onto batch.
StockRecord(instrumentId, date, priceData) ==
  [instrument_id |-> instrumentId, date |-> date,
   open |-> priceData.open, high |-> priceData.high, low |-> priceData.low,
   close |-> priceData.close, volume |-> priceData.volume]

\* A faulty start of an instrument: previousClose declared outside the
\* loop over the instruments, so it is not reset.
BeginInstrumentCarry(st) == [st EXCEPT !.batch = <<>>, !.idx = 0]

\* let previousClose; let batch = []; and the start of the for-of loop.
BeginInstrument(st) ==
  [st EXCEPT !.previousClose = undefined, !.batch = <<>>, !.idx = 0]

\* A faulty call: previousClose not passed on.
previousCloseArgNone(st) == undefined

\* The argument generateInstrumentChunk passes as previousClose.
previousCloseArg(st) == st.previousClose

\* A faulty threading: previousClose = priceData.open.
nextPreviousCloseOpen(priceData) == Some(priceData.open)

\* previousClose = priceData.close
nextPreviousClose(priceData) == Some(priceData.close)

\* A faulty resumption: batch not emptied after the yield.
ResumeKeepBatch(st) == st

\* batch = [] after the yield of a full batch.
ResumeAfterYield(st) == [st EXCEPT !.batch = <<>>]

\* The body of the for-of loop up to the test of batch.length.
DateStep(st) ==
  Only({Only({[st EXCEPT
                 !.idx = st.idx + 1,
                 !.batch = Append(st.batch,
                                  StockRecord(st.instrumentId, date, priceData)),
                 !.previousClose = nextPreviousClose(priceData),
                 !.made = Append(st.made, [instrument_id |-> st.instrumentId,
                                           date |-> date,
                                           previousClose |-> arg,
                                           priceData |-> Returned(priceData)]),
                 !.x = <<priceData.x>>]
              : priceData \in {generateStockPrice(st.instrumentId, date, arg)}})
        : date \in {tradingDays[st.idx + 1]}, arg \in {previousCloseArg(st)}})

\* A faulty test of the batch: batch.length > BATCH_SIZE.
batchIsFullLate(batch) == Len(batch) > BATCH_SIZE

\* Line 117: batch.length >= BATCH_SIZE.
batchIsFull(batch) == Len(batch) >= BATCH_SIZE

RECURSIVE InstrumentLoop(_), DateLoop(_)
\* for (instrumentId = ...; instrumentId <= endInstrumentId; instrumentId++)
InstrumentLoop(state) ==
  Only({IF st.instrumentId <= st.endId
        THEN DateLoop(BeginInstrument(st))
        ELSE [st EXCEPT !.pc = "done"] : st \in {state}})

\* for (const date of this.tradingDays) and what follows it.
DateLoop(state) ==
  Only({IF st.idx < Len(tradingDays)
        THEN Only({IF batchIsFull(st2.batch)
                   THEN [st2 EXCEPT !.pc = "yield118", !.yielded = <<st2.batch>>]
                   ELSE DateLoop(st2) : st2 \in {DateStep(st)}})
        ELSE IF Len(st.batch) > 0
             THEN [st EXCEPT !.pc = "yield125", !.yielded = <<st.batch>>]
             ELSE InstrumentLoop([st EXCEPT !.instrumentId = st.instrumentId + 1])
        : st \in {state}})

\* One call of next() on an iterator whose locals are it.
RunNext(it) ==
  Only({CASE it.pc = "start" -> InstrumentLoop(st)
          [] it.pc = "yield118" -> DateLoop(ResumeAfterYield(st))
          [] it.pc = "yield125" ->
               InstrumentLoop([st EXCEPT !.instrumentId = it.instrumentId + 1])
        : st \in {[pc |-> it.pc, startId |-> it.startId, endId |-> it.endId,
                   instrumentId |-> it.instrumentId, idx |-> it.idx,
                   previousClose |-> it.previousClose, batch |-> it.batch,
                   yielded |-> <<>>, made |-> <<>>, x |-> <<>>]}})

\* generator.generateInstrumentChunk(startId, endId): a new generator
\* object, suspended at the start of the body.
ChunkCalled(i, startId, endId) ==
  /\ constructed
  /\ iter[i].pc \in {"none", "done"}
  /\ iter' = [iter EXCEPT ![i] = [NoIter EXCEPT !.pc = "start",
                                                !.startId = startId,
                                                !.endId = endId,
                                                !.instrumentId = startId]]
  /\ out' = [out EXCEPT ![i] = <<>>]
  /\ calls' = [calls EXCEPT ![i] = <<>>]

\* The call made by a caller that has no other state.
CallChunk(i, startId, endId) ==
  /\ ChunkCalled(i, startId, endId)
  /\ UNCHANGED <<tz, startDay, endDay, constructed, tradingDays, rngX, first, between, last>>
  /\ UNCHANGED loaderVars

\* next() on iterator i.
NextRun(i) ==
  /\ iter[i].pc \in {"start", "yield118", "yield125"}
  /\ \E st \in {RunNext(iter[i])} :
         /\ iter' = [iter EXCEPT ![i] =
                       [pc |-> st.pc, startId |-> st.startId, endId |-> st.endId,
                        instrumentId |-> st.instrumentId, idx |-> st.idx,
                        previousClose |-> st.previousClose, batch |-> st.batch]]
         /\ out' = [out EXCEPT ![i] = out[i] \o st.yielded]
         /\ calls' = [calls EXCEPT ![i] = calls[i] \o st.made]
         /\ rngX' = IF st.x = <<>> THEN rngX ELSE st.x

\* next() called by a caller that has no other state.
NextCall(i) ==
  /\ NextRun(i)
  /\ UNCHANGED <<tz, startDay, endDay, constructed, tradingDays, first, between, last>>
  /\ UNCHANGED loaderVars

(***************************************************************************)
(* Spec: one process constructs the generator, in any host time zone and   *)
(* for any end date of the calendar, and drives one instrument range after *)
(* another to exhaustion, as the loop of main does.                        *)
(***************************************************************************)
Next ==
  \/ Construct
  \/ \E s \in StartIds : \E e \in (s - 1) .. (s + MaxSpan - 1) : CallChunk(1, s, e)
  \/ NextCall(1)

Spec == Init /\ [][Next]_vars

\* main drives every iterator it creates to exhaustion (for ... of).
FairSpec == Spec /\ WF_vars(NextCall(1))

(***************************************************************************)
(* SpecPrice: generateStockPrice called directly, any number of times with *)
(* any of the modelled arguments, on a generator constructed in UTC.       *)
(***************************************************************************)
InitPrice == Init /\ tz = UTC /\ endDay = MaxEndDay

NextPrice ==
  \/ Construct
  \/ \E id \in DirectIds : \E date \in DirectDates : \E previousClose \in DirectCloses :
       DirectCall(id, date, previousClose)

SpecPrice == InitPrice /\ [][NextPrice]_vars

(***************************************************************************)
(* SpecIds: generateStockPrice called directly with instrument ids from    *)
(* the whole signed 32-bit range (2^31 - 1, its negative, 0, and 394434,   *)
(* whose string with the date 2014-09-12 hashes to -2^31).                 *)
(***************************************************************************)
RangeIds == {0 - 2147483647, 0 - 1, 0, 1, 394434, 2147483647}
RangeDates == {0, 254}
RangeCloses == {undefined, Some(0 - Unit)}

NextIds ==
  \/ Construct
  \/ \E id \in RangeIds : \E date \in RangeDates : \E previousClose \in RangeCloses :
       DirectCall(id, date, previousClose)

SpecIds == InitPrice /\ [][NextIds]_vars

(***************************************************************************)
(* SpecZones: one iterator driven as in Spec, on hosts in the zones of     *)
(* Spec and in Cairo, with calendars that end before and after the days on *)
(* which daylight saving time begins in New York (2014-03-09, day 67) and  *)
(* in Cairo (2014-05-16, day 135).                                         *)
(***************************************************************************)
ZoneEndDays == {0 - 1, 0, 6, 67, 134, 135, 136}
ZoneStartIds == {1, 42}

InitZones ==
  /\ InitGeneratorIn(Zones \cup {Cairo}, ZoneEndDays)
  /\ main = NoMain
  /\ inserter = NoInserter
  /\ seeder = NoSeed
  /\ db = EmptyDb
  /\ probe = <<>>
  /\ bench = NoBench

NextZones ==
  \/ Construct
  \/ \E s \in ZoneStartIds : \E e \in (s - 1) .. (s + 1) : CallChunk(1, s, e)
  \/ NextCall(1)

SpecZones == InitZones /\ [][NextZones]_vars

(***************************************************************************)
(* SpecPar: two iterators over instrument ranges that overlap, driven in   *)
(* any interleaving and any number of times, over a calendar of three      *)
(* trading days.                                                           *)
(***************************************************************************)
ParStartIds == {41, 42}

InitPar == Init /\ tz = UTC /\ endDay = 2

NextPar ==
  \/ Construct
  \/ \E i \in Iters : \E s \in ParStartIds : \E e \in s .. (s + 1) : CallChunk(i, s, e)
  \/ \E i \in Iters : NextCall(i)

SpecPar == InitPar /\ [][NextPar]_vars

(***************************************************************************)
(* The streaming loader: main() of lines 208 to 277 with its               *)
(* StreamingInserter.  A backend's client is asked one request per call of *)
(* an insertBatch method; a request settles (is fulfilled or rejected)     *)
(* some time after it was sent.  pgSent and chSent are the batches sent to *)
(* each backend, in order; pgSettled and chSettled count the requests      *)
(* fulfilled.  db.pg is the set of keys of PostgreSQL's stock_data.        *)
(***************************************************************************)
TOTAL_INSTRUMENTS == 3
INSTRUMENTS_PER_CHUNK == 2

\* The key (instrument_id, date) of a record, and the keys of a batch.
KeyOf(record) == <<record.instrument_id, record.date>>
KeysOf(batch) == {KeyOf(batch[k]) : k \in 1 .. Len(batch)}

\* INSERT ... VALUES rows ON CONFLICT (instrument_id, date) DO NOTHING on a
\* table with PRIMARY KEY (instrument_id, date): the rows whose key the table
\* holds are skipped, the others are inserted, the statement succeeds.
InsertOnConflictDoNothing(table, batch) ==
  [ok |-> TRUE, table |-> table \cup KeysOf(batch)]

\* INSERT ... VALUES rows on a table with PRIMARY KEY (instrument_id, date):
\* a row whose key the table holds, or a key given twice, fails the whole
\* statement and nothing is inserted.
InsertPlain(table, batch) ==
  IF KeysOf(batch) \cap table # {} \/ Cardinality(KeysOf(batch)) # Len(batch)
  THEN [ok |-> FALSE, table |-> table]
  ELSE [ok |-> TRUE, table |-> table \cup KeysOf(batch)]

\* A faulty Promise.all: settled as soon as one of its promises is
\* (Promise.race).
PromiseRace(ins) ==
  IF ins.pgRejected \/ ins.chRejected THEN "rejected"
  ELSE IF ins.pgSettled = Len(ins.pgSent) \/ ins.chSettled = Len(ins.chSent)
       THEN "fulfilled" ELSE "pending"

\* A faulty Promise.all: fulfilled once both have settled, rejected or not
\* (Promise.allSettled).
PromiseAllSettled(ins) ==
  IF (ins.pgRejected \/ ins.pgSettled = Len(ins.pgSent))
     /\ (ins.chRejected \/ ins.chSettled = Len(ins.chSent))
  THEN "fulfilled" ELSE "pending"

\* Promise.all([insertBatchPostgreSQL(batch), insertBatchClickHouse(batch)]):
\* rejected as soon as one of the two is, fulfilled when both are.
PromiseAll(ins) ==
  IF ins.pgRejected \/ ins.chRejected THEN "rejected"
  ELSE IF ins.pgSettled = Len(ins.pgSent) /\ ins.chSettled = Len(ins.chSent)
       THEN "fulfilled" ELSE "pending"

\* Lines 211 and 143 to 147: await inserter.connect(), outside the try of
\* main.  pgClient.connect() or, after it, chClient.ping() may fail; main
\* then rejects and the process ends.
MainConnect ==
  /\ main.pc = "connect"
  /\ constructed
  /\ \E outcome \in {"connected", "connect fails", "ping fails"} :
       /\ inserter' = [inserter EXCEPT
                         !.pgOpen = outcome # "connect fails",
                         !.chOpen = outcome = "connected"]
       /\ main' = [main EXCEPT !.pc = IF outcome = "connected"
                                      THEN "chunk" ELSE "rejected"]
  /\ UNCHANGED <<tz, startDay, endDay, constructed, tradingDays, iter, out, calls,
                 rngX, first, between, last>>
  /\ UNCHANGED <<seeder, db, probe, bench>>

\* A faulty end of a chunk: startId + INSTRUMENTS_PER_CHUNK - 1, without
\* Math.min.
endIdUnclipped(startId) == startId + INSTRUMENTS_PER_CHUNK - 1

\* Line 222: Math.min(startId + INSTRUMENTS_PER_CHUNK - 1, TOTAL_INSTRUMENTS).
endIdOf(startId) ==
  IF startId + INSTRUMENTS_PER_CHUNK - 1 < TOTAL_INSTRUMENTS
  THEN startId + INSTRUMENTS_PER_CHUNK - 1
  ELSE TOTAL_INSTRUMENTS

\* A faulty count: one per batch.
countAfterOne(count, batch) == count + 1

\* Lines 166 and 182: the count of a backend after a batch was inserted.
countAfter(count, batch) == count + Len(batch)

\* Line 259: total_records of the results saved.
total_records == inserter.pgInsertCount

\* Line 221, the test of the loop over the chunks, and lines 222 to 227: the
\* call of generateInstrumentChunk; or the end of the loop and lines 239 to
\* 268: the results are reported and saved.
MainChunk ==
  /\ main.pc = "chunk"
  /\ IF main.startId <= TOTAL_INSTRUMENTS
     THEN \E endId \in {endIdOf(main.startId)} :
            /\ ChunkCalled(1, main.startId, endId)
            /\ main' = [main EXCEPT !.pc = "forof", !.endId = endId]
     ELSE /\ main' = [main EXCEPT !.pc = "results"]
          /\ UNCHANGED <<iter, out, calls>>
  /\ UNCHANGED <<tz, startDay, endDay, constructed, tradingDays, rngX, first, between, last>>
  /\ UNCHANGED <<inserter, seeder, db, probe, bench>>

\* Line 227: for ... of calls next().  With a batch, both insert methods are
\* called (lines 229 to 232) and each sends its request; at the end of the
\* generator, lines 235 to 237 and the step startId += INSTRUMENTS_PER_CHUNK.
MainForOf ==
  /\ main.pc = "forof"
  /\ NextRun(1)
  /\ IF Len(out'[1]) > Len(out[1])
     THEN /\ inserter' = [inserter EXCEPT
                            !.pgSent = Append(@, out'[1][Len(out'[1])]),
                            !.chSent = Append(@, out'[1][Len(out'[1])])]
          /\ main' = [main EXCEPT !.pc = "await"]
     ELSE /\ main' = [main EXCEPT !.pc = "chunk",
                                  !.processedInstruments = main.endId,
                                  !.startId = main.startId + INSTRUMENTS_PER_CHUNK]
          /\ UNCHANGED inserter
  /\ UNCHANGED <<tz, startDay, endDay, constructed, tradingDays, first, between, last>>
  /\ UNCHANGED <<seeder, db, probe, bench>>

\* insertBatchPostgreSQL, lines 165 and 166: the query of the oldest request
\* in flight succeeds.
PostgreSQLFulfils ==
  /\ main.pc = "await"
  /\ inserter.pgSettled < Len(inserter.pgSent)
  /\ ~inserter.pgRejected
  /\ \E batch \in {inserter.pgSent[inserter.pgSettled + 1]} :
       /\ inserter' = [inserter EXCEPT !.pgSettled = @ + 1,
                                       !.pgInsertCount = countAfter(@, batch)]
       /\ db' = [db EXCEPT !.pg = InsertOnConflictDoNothing(db.pg, batch).table]
  /\ UNCHANGED <<tz, startDay, endDay, constructed, tradingDays, iter, out, calls,
                 rngX, first, between, last>>
  /\ UNCHANGED <<main, seeder, probe, bench>>

\* insertBatchPostgreSQL, line 165: the query fails and the method rejects.
PostgreSQLRejects ==
  /\ main.pc = "await"
  /\ inserter.pgSettled < Len(inserter.pgSent)
  /\ ~inserter.pgRejected
  /\ inserter' = [inserter EXCEPT !.pgRejected = TRUE]
  /\ UNCHANGED <<tz, startDay, endDay, constructed, tradingDays, iter, out, calls,
                 rngX, first, between, last>>
  /\ UNCHANGED <<main, seeder, db, probe, bench>>

\* insertBatchClickHouse, lines 176 to 182: the insert succeeds.
ClickHouseFulfils ==
  /\ main.pc = "await"
  /\ inserter.chSettled < Len(inserter.chSent)
  /\ ~inserter.chRejected
  /\ \E batch \in {inserter.chSent[inserter.chSettled + 1]} :
       inserter' = [inserter EXCEPT !.chSettled = @ + 1,
                                    !.chInsertCount = countAfter(@, batch)]
  /\ UNCHANGED <<tz, startDay, endDay, constructed, tradingDays, iter, out, calls,
                 rngX, first, between, last>>
  /\ UNCHANGED <<main, seeder, db, probe, bench>>

\* insertBatchClickHouse, line 176: the insert fails and the method rejects.
ClickHouseRejects ==
  /\ main.pc = "await"
  /\ inserter.chSettled < Len(inserter.chSent)
  /\ ~inserter.chRejected
  /\ inserter' = [inserter EXCEPT !.chRejected = TRUE]
  /\ UNCHANGED <<tz, startDay, endDay, constructed, tradingDays, iter, out, calls,
                 rngX, first, between, last>>
  /\ UNCHANGED <<main, seeder, db, probe, bench>>

\* Line 229: await Promise.all(...) resumes main once both are fulfilled.
MainAwait ==
  /\ main.pc = "await"
  /\ PromiseAll(inserter) = "fulfilled"
  /\ main' = [main EXCEPT !.pc = "forof"]
  /\ UNCHANGED <<tz, startDay, endDay, constructed, tradingDays, iter, out, calls,
                 rngX, first, between, last>>
  /\ UNCHANGED <<inserter, seeder, db, probe, bench>>

\* Lines 270 to 272: a rejection is caught and process.exit(1) ends the
\* process there and then; the finally block of lines 273 to 275 is not run.
MainCatch ==
  /\ main.pc = "await"
  /\ PromiseAll(inserter) = "rejected"
  /\ main' = [main EXCEPT !.pc = "exit"]
  /\ UNCHANGED <<tz, startDay, endDay, constructed, tradingDays, iter, out, calls,
                 rngX, first, between, last>>
  /\ UNCHANGED <<inserter, seeder, db, probe, bench>>

\* Lines 273 to 275 after the try block has ended: inserter.disconnect(),
\* and main returns.
MainFinally ==
  /\ main.pc = "results"
  /\ inserter' = [inserter EXCEPT !.pgOpen = FALSE, !.chOpen = FALSE]
  /\ main' = [main EXCEPT !.pc = "end"]
  /\ UNCHANGED <<tz, startDay, endDay, constructed, tradingDays, iter, out, calls,
                 rngX, first, between, last>>
  /\ UNCHANGED <<seeder, db, probe, bench>>

(***************************************************************************)
(* SpecLoad: the streaming loader from its start, in any host time zone    *)
(* and for any end date of the calendar, on a PostgreSQL table that is     *)
(* empty or holds the first row of instrument 1 from an earlier run.       *)
(***************************************************************************)
LoadTables == {{}, {<<1, 0>>}}

InitLoad ==
  /\ InitGenerator
  /\ main = NoMain
  /\ inserter = NoInserter
  /\ seeder = NoSeed
  /\ db \in {[EmptyDb EXCEPT !.pg = t] : t \in LoadTables}
  /\ probe = <<>>
  /\ bench = NoBench

NextLoad ==
  \/ Construct
  \/ MainConnect
  \/ MainChunk
  \/ MainForOf
  \/ PostgreSQLFulfils
  \/ PostgreSQLRejects
  \/ ClickHouseFulfils
  \/ ClickHouseRejects
  \/ MainAwait
  \/ MainCatch
  \/ MainFinally

SpecLoad == InitLoad /\ [][NextLoad]_vars

\* The event loop runs every continuation that is ready, and a request
\* settles.
FairSpecLoad == SpecLoad /\ WF_vars(NextLoad)

(***************************************************************************)
(* seedData(totalRows) with the DatabaseClients it loads through.  The     *)
(* prices and the volume of a record come from Math.random and are read by *)
(* nothing in seedData or in insertBatch but the text of the statements:   *)
(* a record is modelled by its instrument_id and its date.  seeder.calls   *)
(* lists the calls of db.insertBatch that have settled: the batch, the     *)
(* keys of it that PostgreSQL held when the call was made, and the error   *)
(* the call rejected with ("none" when it was fulfilled), and the backends  *)
(* the call stored the batch in.  seeder.logged counts the failures that   *)
(* seedData logged.                                                        *)
(***************************************************************************)
batchSize == 2
instruments == 3
TOTAL_ROWS == 10

\* Line 200: Math.floor(totalRows / instruments).
recordsPerInstrument == TOTAL_ROWS \div instruments

\* Line 212: the number of days a record lies after startDate.
dayOffsetOf(instrument, record) == record + (instrument - 1) * 3

\* Lines 201 and 211 to 214: the Date of a record, from new Date("2014-01-01")
\* moved by dayOffset local dates.
seedDateOf(zone, instrument, record) ==
  setDatePlus(zone, NewDate(0), dayOffsetOf(instrument, record))

\* Line 214: date.toISOString().split("T")[0], as a day number.
dateStrOf(zone, instrument, record) == seedDateOf(zone, instrument, record) \div 24

\* Lines 236 to 244: the record pushed.
SeedRecord(zone, instrument, record) ==
  [instrument_id |-> instrument, date |-> dateStrOf(zone, instrument, record)]

\* A faulty catch: the failed batch is kept (no batch = []).
batchKeptAfterFailure(batch) == batch

\* Lines 259 to 261: the batch after a failure that was caught.
batchAfterFailure(batch) == <<>>

\* Lines 206 to 246 and 265 to 272: the loops of seedData up to the next call
\* of db.insertBatch or to the end of the loops.
SeedLoop ==
  /\ seeder.pc = "loop"
  /\ IF seeder.instrument > instruments
     THEN \* line 272: the records that remain, if any
          seeder' = [seeder EXCEPT !.pc = IF Len(seeder.batch) > 0 THEN "pg" ELSE "end",
                                   !.final = TRUE]
     ELSE IF seeder.record >= recordsPerInstrument
     THEN seeder' = [seeder EXCEPT !.instrument = @ + 1, !.record = 0]
     ELSE \E batch \in {Append(seeder.batch,
                               SeedRecord(tz, seeder.instrument, seeder.record))} :
            seeder' = [seeder EXCEPT !.batch = batch,
                                     !.record = @ + 1,
                                     !.pc = IF Len(batch) >= batchSize
                                            THEN "pg" ELSE "loop"]
  /\ UNCHANGED <<tz, startDay, endDay, constructed, tradingDays, iter, out, calls,
                 rngX, first, between, last>>
  /\ UNCHANGED <<main, inserter, db, probe, bench>>

\* seedData after a call of insertBatch was fulfilled: lines 249 to 250 and
\* 275.
SeedFulfilled(s, existing) ==
  [s EXCEPT !.totalInserted = @ + Len(s.batch),
            !.batch = IF s.final THEN s.batch ELSE <<>>,
            !.calls = Append(@, [records |-> s.batch, existing |-> existing,
                                 stored |-> s.stored, error |-> "none"]),
            !.stored = {},
            !.pc = IF s.final THEN "end" ELSE "loop"]

\* seedData after a call of insertBatch was rejected: lines 258 to 261 and
\* 276 to 282.
SeedRejected(s, existing, error) ==
  [s EXCEPT !.logged = @ + 1,
            !.batch = IF s.final THEN s.batch ELSE batchAfterFailure(s.batch),
            !.calls = Append(@, [records |-> s.batch, existing |-> existing,
                                 stored |-> s.stored, error |-> error]),
            !.stored = {},
            !.pc = IF s.final THEN "end" ELSE "loop"]

\* insertBatch, lines 51 to 54: the INSERT into PostgreSQL.  It fails on a
\* key the table holds, and it may fail for a reason of the connection.
InsertBatchPostgreSQL ==
  /\ seeder.pc = "pg"
  /\ \E existing \in {KeysOf(seeder.batch) \cap db.pg} :
     \E result \in {InsertPlain(db.pg, seeder.batch)} :
     \E fault \in BOOLEAN :
       IF fault
       THEN /\ seeder' = SeedRejected(seeder, existing, "connection")
            /\ UNCHANGED db
       ELSE IF ~result.ok
       THEN /\ seeder' = SeedRejected(seeder, existing, "duplicate key")
            /\ UNCHANGED db
       ELSE /\ seeder' = [seeder EXCEPT !.pc = "ch", !.existing = existing,
                                        !.stored = {"pg"}]
            /\ db' = [db EXCEPT !.pg = result.table]
  /\ UNCHANGED <<tz, startDay, endDay, constructed, tradingDays, iter, out, calls,
                 rngX, first, between, last>>
  /\ UNCHANGED <<main, inserter, probe, bench>>

\* insertBatch, lines 57 to 74: the insert into ClickHouse; its failure is
\* logged by insertBatch and goes no further.
InsertBatchClickHouse ==
  /\ seeder.pc = "ch"
  /\ \E fault \in BOOLEAN :
       IF fault
       THEN /\ seeder' = [seeder EXCEPT !.pc = "ts", !.chFailures = @ + 1]
            /\ UNCHANGED db
       ELSE /\ seeder' = [seeder EXCEPT !.pc = "ts", !.stored = @ \cup {"ch"}]
            /\ db' = [db EXCEPT !.ch = @ \cup KeysOf(seeder.batch)]
  /\ UNCHANGED <<tz, startDay, endDay, constructed, tradingDays, iter, out, calls,
                 rngX, first, between, last>>
  /\ UNCHANGED <<main, inserter, probe, bench>>

\* insertBatch, lines 77 to 80: the INSERT into TimescaleDB, and the return.
InsertBatchTimescaleDB ==
  /\ seeder.pc = "ts"
  /\ \E result \in {InsertPlain(db.ts, seeder.batch)} :
     \E fault \in BOOLEAN :
       IF fault
       THEN /\ seeder' = SeedRejected(seeder, seeder.existing, "connection")
            /\ UNCHANGED db
       ELSE IF ~result.ok
       THEN /\ seeder' = SeedRejected(seeder, seeder.existing, "duplicate key")
            /\ UNCHANGED db
       ELSE /\ seeder' = SeedFulfilled([seeder EXCEPT !.stored = @ \cup {"ts"}],
                                      seeder.existing)
            /\ db' = [db EXCEPT !.ts = result.table]
  /\ UNCHANGED <<tz, startDay, endDay, constructed, tradingDays, iter, out, calls,
                 rngX, first, between, last>>
  /\ UNCHANGED <<main, inserter, probe, bench>>

(***************************************************************************)
(* SpecSeed: seedData from its start, in any host time zone, on tables     *)
(* that are empty or hold the first row of instrument 1 from an earlier    *)
(* run.  FairSpecSeed: every request settles and seedData goes on.         *)
(***************************************************************************)
SeedTables == {{}, {<<1, 0>>}}

InitSeed ==
  /\ InitGenerator
  /\ endDay = MaxEndDay
  /\ main = NoMain
  /\ inserter = NoInserter
  /\ seeder = NoSeed
  /\ db \in {[pg |-> p, ch |-> {}, ts |-> t] : p \in SeedTables, t \in SeedTables}
  /\ probe = <<>>
  /\ bench = NoBench

NextSeed ==
  \/ SeedLoop
  \/ InsertBatchPostgreSQL
  \/ InsertBatchClickHouse
  \/ InsertBatchTimescaleDB

SpecSeed == InitSeed /\ [][NextSeed]_vars

FairSpecSeed == SpecSeed /\ WF_vars(NextSeed)

(***************************************************************************)
(* SpecDates: the date seedData computes for a record, for the loops' real *)
(* limits (instruments 1 to 10000, records 0 to 2499 with 25 000 000 rows) *)
(* at and around their ends, on a host in UTC.                             *)
(***************************************************************************)
DateInstruments == {1, 2, 3, 141, 142, 143, 5000, 9999, 10000}
DateRecords == {0, 1, 2, 3, 1000, 1249, 1250, 2000, 2496, 2497, 2498, 2499}

\* Lines 211 to 214 for one record.
SeedDate(instrument, record) ==
  /\ probe' = <<[instrument |-> instrument, record |-> record,
                 dayOffset |-> dayOffsetOf(instrument, record),
                 dateStr |-> dateStrOf(tz, instrument, record)]>>
  /\ UNCHANGED <<tz, startDay, endDay, constructed, tradingDays, iter, out, calls,
                 rngX, first, between, last>>
  /\ UNCHANGED <<main, inserter, seeder, db, bench>>

NextDates ==
  \E instrument \in DateInstruments : \E record \in DateRecords :
    SeedDate(instrument, record)

SpecDates == InitPrice /\ [][NextDates]_vars

(***************************************************************************)
(* Properties of generateStockPrice, checked under SpecPrice.              *)
(***************************************************************************)
\* C1: generateStockPrice is deterministic: a call with the arguments of the
\* first call returns the record the first call returned, in all five
\* fields, whatever calls were made between the two.
C1_Deterministic ==
  (first # <<>> /\ last # <<>> /\ SameArguments(first[1], last[1]))
    => last[1].priceData = first[1].priceData

\* The first call repeated after a call with other arguments.
C1_Witness ==
  /\ first # <<>>
  /\ between
  /\ SameArguments(first[1], last[1])
  /\ last[1].previousClose # undefined

\* C2: every record returned (after rounding) for an instrument id >= 1 and
\* a previousClose that is absent or positive has low <= high,
\* low <= open <= high and low <= close <= high.
C2_PriceOrdering ==
  (/\ last # <<>>
   /\ last[1].instrument_id >= 1
   /\ (last[1].previousClose = undefined \/ last[1].previousClose[1] > 0))
    => /\ last[1].priceData.low <= last[1].priceData.high
       /\ last[1].priceData.low <= last[1].priceData.open
       /\ last[1].priceData.open <= last[1].priceData.high
       /\ last[1].priceData.low <= last[1].priceData.close
       /\ last[1].priceData.close <= last[1].priceData.high

\* A record for the smallest positive previousClose of the model, whose open
\* is the floor 0.01, with low, open and high apart.
C2_Witness ==
  /\ last # <<>>
  /\ last[1].previousClose = Some(Unit \div 10000)
  /\ last[1].priceData.open = Unit \div 100
  /\ last[1].priceData.low < last[1].priceData.open
  /\ last[1].priceData.open < last[1].priceData.high

\* C10: every returned open, high, low and close is a multiple of 0.0001 and
\* every returned volume a multiple of 0.01.
C10_Rounding ==
  last # <<>> =>
    /\ last[1].priceData.open % (Unit \div 10000) = 0
    /\ last[1].priceData.high % (Unit \div 10000) = 0
    /\ last[1].priceData.low % (Unit \div 10000) = 0
    /\ last[1].priceData.close % (Unit \div 10000) = 0
    /\ last[1].priceData.volume % (VolUnit \div 100) = 0

\* A record whose close needs all four decimals.
C10_Witness ==
  /\ last # <<>>
  /\ last[1].priceData.close % (Unit \div 1000) # 0
  /\ last[1].priceData.volume > 0

(***************************************************************************)
(* Properties of the calendar and of generateInstrumentChunk, checked      *)
(* under Spec.                                                             *)
(***************************************************************************)
\* C3: for every instrument id in 1 .. 10^6 and every trading day reached by
\* threading close forward from no previousClose, the record has open > 0,
\* high > 0, low > 0 (after rounding) and volume >= 0, and the previousClose
\* passed on is never 0 or negative.
C3_Positivity ==
  \A k \in 1 .. Len(calls[1]) :
    (calls[1][k].instrument_id >= 1 /\ calls[1][k].instrument_id <= 1000 * 1000)
      => /\ calls[1][k].priceData.open > 0
         /\ calls[1][k].priceData.high > 0
         /\ calls[1][k].priceData.low > 0
         /\ calls[1][k].priceData.volume >= 0
         /\ (calls[1][k].previousClose = undefined \/ calls[1][k].previousClose[1] > 0)

\* Instrument 10^6 threaded over five trading days.
C3_Witness ==
  /\ Len(calls[1]) >= 5
  /\ Len(tradingDays) >= 5
  /\ calls[1][Len(calls[1])].instrument_id = 1000 * 1000
  /\ calls[1][Len(calls[1])].date = tradingDays[5]
  /\ calls[1][Len(calls[1])].previousClose # undefined

\* The dates from day a to day b (inclusive) that fall on Monday .. Friday,
\* in ascending order; day 0 is a Wednesday.
RECURSIVE Weekdays(_, _)
Weekdays(a, b) ==
  IF a > b THEN <<>>
  ELSE (IF (a + 3) % 7 \in {0, 6} THEN <<>> ELSE <<a>>) \o Weekdays(a + 1, b)

\* C4: the calendar built at construction holds exactly the dates from start
\* to end (inclusive) that fall on Monday .. Friday, each once, in ascending
\* order; for 2014-01-01 .. 2014-01-07 it is 2014-01-01, 2014-01-02,
\* 2014-01-03, 2014-01-06, 2014-01-07.
C4_Calendar ==
  constructed =>
    /\ tradingDays = Weekdays(startDay, endDay)
    /\ (startDay = 0 /\ endDay = 6) => tradingDays = <<0, 1, 2, 5, 6>>

\* C5: for each instrument the calls are made in calendar order, the
\* previousClose passed for a day after the first is the rounded close
\* returned for the trading day before it, and none is passed for the first
\* trading day of an instrument.
C5_Sequencing ==
  \A k \in 1 .. Len(calls[1]) :
    IF k = 1 \/ calls[1][k - 1].instrument_id # calls[1][k].instrument_id
    THEN /\ calls[1][k].previousClose = undefined
         /\ calls[1][k].date = tradingDays[1]
    ELSE /\ calls[1][k].previousClose = Some(calls[1][k - 1].priceData.close)
         /\ \E n \in 1 .. (Len(tradingDays) - 1) :
              /\ calls[1][k - 1].date = tradingDays[n]
              /\ calls[1][k].date = tradingDays[n + 1]
              /\ tradingDays[n] < tradingDays[n + 1]

\* A second instrument on its second trading day.
C5_Witness ==
  /\ Len(calls[1]) >= 4
  /\ calls[1][1].instrument_id # calls[1][Len(calls[1])].instrument_id
  /\ calls[1][Len(calls[1])].previousClose # undefined

\* The records of the first three trading days of an instrument, each
\* generated with no previousClose.
Independent(instrumentId) ==
  [n \in 1 .. 3 |->
     Returned(generateStockPrice(instrumentId, tradingDays[n], undefined))]

\* C6: instrument 42 generated over three consecutive trading days with the
\* close threaded forward gives other records than the same three days
\* generated each with no previousClose.
C6_Continuity ==
  \A k \in 3 .. Len(calls[1]) :
    (/\ calls[1][k].instrument_id = 42
     /\ calls[1][k - 2].instrument_id = 42
     /\ calls[1][k - 2].previousClose = undefined)
      => [n \in 1 .. 3 |-> calls[1][k - 3 + n].priceData] # Independent(42)

\* Instrument 42 generated over its first three trading days.
C6_Witness ==
  \E k \in 3 .. Len(calls[1]) :
    /\ calls[1][k].instrument_id = 42
    /\ calls[1][k - 2].instrument_id = 42
    /\ calls[1][k - 2].previousClose = undefined
    /\ calls[1][k].date = tradingDays[3]

RECURSIVE Flatten(_)
Flatten(batches) ==
  IF batches = <<>> THEN <<>> ELSE Head(batches) \o Flatten(Tail(batches))

\* The number of instruments of the range of iterator i.
RangeSize(i) ==
  IF iter[i].startId > iter[i].endId THEN 0
  ELSE iter[i].endId - iter[i].startId + 1

\* C7: generateInstrumentChunk(startId, endId) is a finite stream: driven to
\* exhaustion it reaches done, having yielded (endId - startId + 1) x
\* |calendar| records, the last of them for the last trading day of
\* instrument endId, and it yields nothing when startId > endId or the
\* calendar is empty.  Checked under FairSpec.
C7_FiniteStream ==
  /\ [](iter[1].pc = "done" =>
          /\ Len(Flatten(out[1])) = RangeSize(1) * Len(tradingDays)
          /\ (RangeSize(1) = 0 \/ tradingDays = <<>>) => out[1] = <<>>
          /\ Flatten(out[1]) # <<>> =>
               /\ Flatten(out[1])[Len(Flatten(out[1]))].instrument_id = iter[1].endId
               /\ Flatten(out[1])[Len(Flatten(out[1]))].date
                    = tradingDays[Len(tradingDays)])
  /\ (iter[1].pc = "start") ~> (iter[1].pc = "done")

\* A range of two instruments exhausted after yields of both kinds.
C7_Witness ==
  /\ iter[1].pc = "done"
  /\ RangeSize(1) = 2
  /\ Len(tradingDays) >= 3
  /\ Len(out[1]) >= 4

\* C8: the records produced for an instrument depend only on its id and the
\* calendar: two iterators, whatever their ranges, however interleaved and
\* however often driven again, yield the same record for the same instrument
\* and date.  Checked under SpecPar.
C8_Independent ==
  \A j \in 1 .. Len(Flatten(out[1])) : \A k \in 1 .. Len(Flatten(out[2])) :
    (/\ Flatten(out[1])[j].instrument_id = Flatten(out[2])[k].instrument_id
     /\ Flatten(out[1])[j].date = Flatten(out[2])[k].date)
      => Flatten(out[1])[j] = Flatten(out[2])[k]

\* Instrument 42 yielded by one iterator as the second of its range and by
\* the other as the first of its range, on a day after the first.
C8_Witness ==
  /\ iter[1].startId = 41
  /\ iter[2].startId = 42
  /\ \E j \in 1 .. Len(Flatten(out[1])) : \E k \in 1 .. Len(Flatten(out[2])) :
       /\ Flatten(out[1])[j].instrument_id = 42
       /\ Flatten(out[2])[k].instrument_id = 42
       /\ Flatten(out[1])[j].date = Flatten(out[2])[k].date
       /\ Flatten(out[1])[j].date = tradingDays[2]

VolumeProduct(call) ==
  FMul(FMul((100000 + (call.instrument_id % 10000) * 10) * VolUnit,
            Frac + FMul(Abs(FDiv(call.locals.close - call.locals.open,
                                 call.locals.open)), 5 * Frac)),
       (Frac \div 2) + rngValue(call.locals.xs[6]))

\* C16 as stated: the returned volume is that product rounded to 2 decimal
\* places.
C16_VolumeTwoDecimals ==
  last # <<>> =>
    last[1].priceData.volume = MathRound(VolumeProduct(last[1]), VolUnit \div 100)

\* C16 as the code has it: the returned volume is that product rounded to
\* the nearest integer; rounding it to 2 decimal places then changes nothing.
C16_VolumeInteger ==
  last # <<>> =>
    /\ last[1].priceData.volume = MathRound(VolumeProduct(last[1]), VolUnit)
    /\ last[1].priceData.volume % VolUnit = 0

\* A call whose product is not an integer and rounds up.
C16_Witness ==
  /\ last # <<>>
  /\ last[1].instrument_id = 42
  /\ VolumeProduct(last[1]) % VolUnit >= VolUnit \div 2
  /\ last[1].priceData.volume > VolumeProduct(last[1])

\* (9301 * n + 49297) mod 233280 for 0 <= n < 233280.
LcgOf(n) == (((n * 93) % 233280) * 100 + n + 49297) % 233280

\* s mod 233280 for a seed s = hi * 65536 + lo up to 2^31.
SeedResidue(s) == ((((s.hi * 256) % 233280) * 256) + s.lo) % 233280

\* C18: the generator is the LCG x := (9301 x + 49297) mod 233280 started
\* from the seed: every call changes x, after every call 0 <= x < 233280 and
\* the value returned lies in [0, 1); a record consumes six draws, in the
\* order volatility, open change, high change, low change, close ratio,
\* volume factor.
C18_Lcg ==
  last # <<>> =>
    /\ Len(last[1].locals.xs) = 6
    /\ rngX = <<last[1].locals.xs[6]>>
    /\ Narrow(last[1].locals.xs[1]) = LcgOf(SeedResidue(last[1].locals.seed))
    /\ \A k \in 1 .. 6 :
         /\ Narrow(last[1].locals.xs[k]) >= 0
         /\ Narrow(last[1].locals.xs[k]) < 233280
         /\ rngValue(last[1].locals.xs[k]) >= 0
         /\ rngValue(last[1].locals.xs[k]) < Frac
         /\ k > 1 =>
              /\ Narrow(last[1].locals.xs[k]) = LcgOf(Narrow(last[1].locals.xs[k - 1]))
              /\ last[1].locals.xs[k] # last[1].locals.xs[k - 1]
    /\ last[1].locals.volatility
         = 5 * (Frac \div 1000) + FMul(rngValue(last[1].locals.xs[1]), 45 * (Frac \div 1000))
    /\ last[1].locals.openChange
         = FMul(FMul(rngValue(last[1].locals.xs[2]) - (Frac \div 2),
                     last[1].locals.volatility), 2 * Frac)
    /\ last[1].locals.high
         = FMul(last[1].locals.open,
                Frac + FMul(rngValue(last[1].locals.xs[3]),
                            FMul(last[1].locals.volatility, Frac \div 2)))
    /\ last[1].locals.low
         = FMul(last[1].locals.open,
                Frac - FMul(rngValue(last[1].locals.xs[4]),
                            FMul(last[1].locals.volatility, Frac \div 2)))
    /\ last[1].locals.close
         = last[1].locals.low
             + FMul(last[1].locals.high - last[1].locals.low,
                    rngValue(last[1].locals.xs[5]))
    /\ last[1].locals.rawVolume = VolumeProduct(last[1])

\* A record generated from a seed above the modulus.
C18_Witness ==
  /\ last # <<>>
  /\ last[1].locals.seed.hi > 4
  /\ last[1].locals.xs[6] # last[1].locals.xs[1]

\* C19: the volatility v lies in [0.005, 0.05); the unrounded open is
\* max(0.01, start x (1 + c)) with |c| <= v, so it is never below 0.01 and,
\* where the floor does not apply, differs from start by at most v x start;
\* high lies in [open, open x (1 + v/2)) and low in (open x (1 - v/2), open].
C19_Ranges ==
  last # <<>> =>
    /\ last[1].locals.volatility >= 5 * (Frac \div 1000)
    /\ last[1].locals.volatility < 50 * (Frac \div 1000)
    /\ Abs(last[1].locals.openChange) <= last[1].locals.volatility
    /\ last[1].locals.open
         = Max(Unit \div 100,
               FMul(last[1].locals.startPrice, Frac + last[1].locals.openChange))
    /\ last[1].locals.open >= Unit \div 100
    /\ last[1].locals.open > Unit \div 100 =>
         Abs(last[1].locals.open - last[1].locals.startPrice)
           <= FMul(last[1].locals.startPrice, last[1].locals.volatility)
    /\ last[1].locals.high >= last[1].locals.open
    /\ last[1].locals.high
         < FMul(last[1].locals.open, Frac + (last[1].locals.volatility \div 2))
    /\ last[1].locals.low <= last[1].locals.open
    /\ last[1].locals.low
         > FMul(last[1].locals.open, Frac - (last[1].locals.volatility \div 2))

\* A day whose open, high and low all moved.
C19_Witness ==
  /\ last # <<>>
  /\ last[1].previousClose = Some(150 * Unit)
  /\ last[1].locals.open # last[1].locals.startPrice
  /\ last[1].locals.high > last[1].locals.open
  /\ last[1].locals.low < last[1].locals.open

(***************************************************************************)
(* Properties of the seed and of the arithmetic, checked under SpecIds.    *)
(***************************************************************************)
\* The residue modulo 2^32 of 31 * r + c, r being a residue modulo 2^32 held
\* in two 16-bit halves.
Residue31(r, c) ==
  Only({[hi |-> (31 * v.hi + ((31 * v.lo + c) \div 65536)) % 65536,
         lo |-> (31 * v.lo + c) % 65536] : v \in {r}})

\* The residue modulo 2^32 of the rolling hash h := 31 * h + charCode of the
\* characters of str from index i on, r being the residue so far.
RECURSIVE RollingHash(_, _, _)
RollingHash(str, i, r) ==
  Only({IF k > Len(s) THEN v ELSE RollingHash(s, k + 1, Residue31(v, s[k]))
        : s \in {str}, k \in {i}, v \in {r}})

\* |h| of the signed 32-bit integer h with the residue r modulo 2^32.
AbsOfResidue(r) ==
  IF r.hi < 32768 THEN r
  ELSE IF r.lo = 0 THEN [hi |-> 65536 - r.hi, lo |-> 0]
  ELSE [hi |-> 65535 - r.hi, lo |-> 65536 - r.lo]

\* The string a recorded call hashes.
SeedString(call) == toString(call.instrument_id) \o ISODate(NewDate(call.date))

\* Whether the seed of a recorded call is |h| for the rolling hash h of its
\* string.
SeedIsAbsOfHash(call) ==
  call.locals.seed =
    AbsOfResidue(RollingHash(SeedString(call), 1, [hi |-> 0, lo |-> 0]))

\* C17 as stated: the seed is |h| for the rolling hash h := 31 h + charCode
\* wrapped to 32 bits, and it fits in 0 .. 2^31 - 1.
C17_SeedFitsSigned ==
  last # <<>> =>
    /\ SeedIsAbsOfHash(last[1])
    /\ last[1].locals.seed.hi >= 0
    /\ last[1].locals.seed.hi < 32768

\* C17 as the code has it: the seed is |h| and lies in 0 .. 2^31; it is 2^31
\* when h = -2^31.  The seeds of "1" + "2014-01-01" and of
\* "2147483647" + "2014-01-01" are 212455342 and 1500248435.
C17_SeedRange ==
  last # <<>> =>
    /\ SeedIsAbsOfHash(last[1])
    /\ last[1].locals.seed.hi >= 0
    /\ last[1].locals.seed.hi <= 32768
    /\ last[1].locals.seed.hi = 32768 => last[1].locals.seed.lo = 0
    /\ (last[1].instrument_id = 1 /\ last[1].date = 0) =>
         last[1].locals.seed = [hi |-> 3241, lo |-> 53166]
    /\ (last[1].instrument_id = 2147483647 /\ last[1].date = 0) =>
         last[1].locals.seed = [hi |-> 22891, lo |-> 63859]

\* Instrument 394434 on 2014-09-12: the hash is -2^31 and the seed 2^31.
C17_Witness ==
  /\ last # <<>>
  /\ last[1].instrument_id = 394434
  /\ last[1].date = 254
  /\ last[1].locals.seed = [hi |-> 32768, lo |-> 0]

\* C20: for every instrument id of the signed 32-bit range and every date,
\* the divisor open of the relative price movement is not 0, and the
\* integers of the generator stay exact: the seed is at most 2^31, so that
\* seed * 9301 + 49297 < 2^47, and every later state is below 233280.
C20_Defined ==
  last # <<>> =>
    /\ last[1].locals.open # 0
    /\ \A n \in 1 .. Len(SeedString(last[1])) :
         \* hash before character n is a signed 32-bit integer, so that
         \* |(hash << 5) - hash + char| < 2^33
         (hashLoop(SubSeq(SeedString(last[1]), 1, n - 1), 1, 0) \div 65536)
           \in (0 - 32768) .. 32767
    /\ last[1].locals.seed.hi >= 0
    /\ (last[1].locals.seed.hi + 1) * 9301 + 1 <= 2147483647
    /\ \A k \in 1 .. 6 :
         /\ last[1].locals.xs[k].hi >= 0
         /\ Narrow(last[1].locals.xs[k]) < 233280

\* The most negative modelled id with a negative previousClose: the anchor
\* and the start price are negative and open is the floor.
C20_Witness ==
  /\ last # <<>>
  /\ last[1].instrument_id = 0 - 2147483647
  /\ last[1].previousClose = Some(0 - Unit)
  /\ last[1].locals.startPrice < 0
  /\ last[1].locals.open = Unit \div 100

(***************************************************************************)
(* Properties of the streaming loader, checked under SpecLoad.             *)
(***************************************************************************)
\* The last n elements of the sequence q.
LastOf(q, n) == SubSeq(q, Len(q) - n + 1, Len(q))

\* What holds of the requests in every state: both backends were sent the
\* same batches in the same order, the batches of the running chunk are the
\* generator's yields in order, and a backend has at most one request in
\* flight.
OrderedRequests ==
  /\ inserter.pgSent = inserter.chSent
  /\ Len(out[1]) <= Len(inserter.pgSent)
  /\ LastOf(inserter.pgSent, Len(out[1])) = out[1]
  /\ Len(inserter.pgSent) - inserter.pgSettled \in {0, 1}
  /\ Len(inserter.chSent) - inserter.chSettled \in {0, 1}

\* What holds of every step that sends a request: it sends the batch just
\* yielded to both backends, and every earlier batch is completed on both.
SendsAfterBoth ==
  (inserter'.pgSent # inserter.pgSent \/ inserter'.chSent # inserter.chSent) =>
    /\ Len(out'[1]) = Len(out[1]) + 1
    /\ inserter'.pgSent = Append(inserter.pgSent, out'[1][Len(out'[1])])
    /\ inserter'.chSent = Append(inserter.chSent, out'[1][Len(out'[1])])
    /\ inserter.pgSettled = Len(inserter.pgSent)
    /\ inserter.chSettled = Len(inserter.chSent)
    /\ ~inserter.pgRejected
    /\ ~inserter.chRejected

\* C11: in the streaming loader each backend receives the batches in the
\* generator's yield order, the same order for both, with at most one batch
\* in flight per backend; batch k+1 is sent only after batch k has completed
\* on both backends.
C11_OneBatchInFlight == []OrderedRequests /\ [][SendsAfterBoth]_vars

\* The second chunk's first batch is in flight on ClickHouse while
\* PostgreSQL has completed it: main waits.
C11_Witness ==
  /\ main.pc = "await"
  /\ main.startId > 1
  /\ Len(inserter.pgSent) >= 3
  /\ inserter.pgSettled = Len(inserter.pgSent)
  /\ inserter.chSettled = Len(inserter.chSent) - 1
  /\ out[1] # <<>>

(***************************************************************************)
(* Properties of seedData, checked under FairSpecSeed, SpecSeed and        *)
(* SpecDates.                                                              *)
(***************************************************************************)
\* The number of records of the first n calls of insertBatch, all of them or
\* (fulfilledOnly) those of the calls that were fulfilled.
RECURSIVE RecordsOf(_, _, _)
RecordsOf(log, n, fulfilledOnly) ==
  IF n = 0 THEN 0
  ELSE RecordsOf(log, n - 1, fulfilledOnly)
         + (IF fulfilledOnly /\ log[n].error # "none" THEN 0
            ELSE Len(log[n].records))

\* The calls of insertBatch that were rejected.
RejectedCalls == {k \in 1 .. Len(seeder.calls) : seeder.calls[k].error # "none"}

\* What holds of seedData's counters in every state: totalInserted counts
\* the records of the fulfilled calls only, every rejection was logged, no
\* record was passed to insertBatch twice, and at the end every record was
\* passed to it once.
SeedAccounting ==
  /\ seeder.totalInserted = RecordsOf(seeder.calls, Len(seeder.calls), TRUE)
  /\ seeder.logged = Cardinality(RejectedCalls)
  /\ \A j \in 1 .. Len(seeder.calls) : \A k \in 1 .. (j - 1) :
       KeysOf(seeder.calls[j].records) \cap KeysOf(seeder.calls[k].records) = {}
  /\ seeder.pc = "end" =>
       RecordsOf(seeder.calls, Len(seeder.calls), FALSE)
         = instruments * recordsPerInstrument

\* What holds of every step in which a call of insertBatch is rejected: the
\* failure is logged, totalInserted is left alone, and seedData goes on with
\* an empty batch (or, after the final batch, to its end).
RejectionIsSkipped ==
  (Len(seeder'.calls) > Len(seeder.calls)
   /\ seeder'.calls[Len(seeder'.calls)].error # "none") =>
    /\ seeder'.logged = seeder.logged + 1
    /\ seeder'.totalInserted = seeder.totalInserted
    /\ seeder'.calls[Len(seeder'.calls)].records = seeder.batch
    /\ IF seeder.final THEN seeder'.pc = "end"
       ELSE seeder'.pc = "loop" /\ seeder'.batch = <<>>

\* C12: in seedData a rejected insertBatch is logged, its batch is discarded
\* and never resubmitted, totalInserted is not increased for it, loading
\* continues with the next batch, and the run ends normally.
C12_FailuresSkipped ==
  []SeedAccounting /\ [][RejectionIsSkipped]_vars /\ <>(seeder.pc = "end")

\* A run that has ended after a rejected batch was followed by a fulfilled
\* one.
C12_Witness ==
  /\ seeder.pc = "end"
  /\ \E j \in RejectedCalls : \E k \in (j + 1) .. Len(seeder.calls) :
       seeder.calls[k].error = "none"
  /\ seeder.totalInserted > 0
  /\ seeder.totalInserted < instruments * recordsPerInstrument

\* C13: a batch with a row whose (instrument_id, date) the backend holds does
\* not fail because of the duplicate: the conflicting rows are ignored and
\* the others are inserted.
C13_DuplicatesIgnored ==
  \A k \in 1 .. Len(seeder.calls) :
    seeder.calls[k].existing # {} =>
      /\ seeder.calls[k].error # "duplicate key"
      /\ seeder.calls[k].error = "none" => KeysOf(seeder.calls[k].records) \subseteq db.pg

\* C14: every record of seedData has a date in the years 2014 to 2021.
C14_DatesIn2014To2021 ==
  probe # <<>> => YearAndDay(probe[1].dateStr, 2014)[1] \in 2014 .. 2021

(***************************************************************************)
(* Properties of the batches and of the calendar, checked under SpecZones. *)
(***************************************************************************)
\* What holds of the batches yielded so far and of the generator's buffer:
\* a batch has 1 to BATCH_SIZE records, all of one instrument, in ascending
\* order of date, and the buffer holds at most BATCH_SIZE records.
BatchShape ==
  /\ \A b \in 1 .. Len(out[1]) :
       /\ Len(out[1][b]) >= 1
       /\ Len(out[1][b]) <= BATCH_SIZE
       /\ \A k \in 2 .. Len(out[1][b]) :
            /\ out[1][b][k].instrument_id = out[1][b][1].instrument_id
            /\ out[1][b][k - 1].date <= out[1][b][k].date
  /\ Len(iter[1].batch) <= BATCH_SIZE
  /\ iter[1].pc = "yield118" => out[1][Len(out[1])] = iter[1].batch

\* What holds of every step: the batches yielded before it are left as they
\* were; the step adds one batch at most, or it is the call that makes a new
\* generator.
YieldedKept ==
  \/ out'[1] = out[1]
  \/ /\ Len(out'[1]) = Len(out[1]) + 1
     /\ SubSeq(out'[1], 1, Len(out[1])) = out[1]
  \/ /\ out'[1] = <<>>
     /\ iter'[1].pc = "start"

\* C21: every batch yielded by generateInstrumentChunk is non-empty, has at
\* most BATCH_SIZE records, holds records of one instrument in ascending
\* order of date, and is not modified by a later step of the generator,
\* which never buffers more than BATCH_SIZE records.
C21_Batches == []BatchShape /\ [][YieldedKept]_vars

\* A generator at its end that has yielded full batches and a remainder.
C21_Witness ==
  /\ iter[1].pc = "done"
  /\ Len(out[1]) >= 3
  /\ \E b \in 1 .. Len(out[1]) : Len(out[1][b]) = BATCH_SIZE
  /\ \E b \in 1 .. Len(out[1]) : Len(out[1][b]) < BATCH_SIZE

\* Whether record r comes before record q in the order of instrument id,
\* then date.
Before(r, q) ==
  \/ r.instrument_id < q.instrument_id
  \/ r.instrument_id = q.instrument_id /\ r.date < q.date

\* C22: across the batches of generateInstrumentChunk(startId, endId) every
\* pair (instrument_id, date) of the range and the calendar occurs in exactly
\* one record, and the records are in ascending order of instrument id, then
\* date: each record comes before the next one, within a batch and from a
\* batch to the next, and at the end every pair has its record.
C22_ExactlyOnce ==
  /\ \A b \in 1 .. Len(out[1]) :
       /\ \A k \in 2 .. Len(out[1][b]) : Before(out[1][b][k - 1], out[1][b][k])
       /\ b > 1 => Before(out[1][b - 1][Len(out[1][b - 1])], out[1][b][1])
       /\ \A k \in 1 .. Len(out[1][b]) :
            /\ out[1][b][k].instrument_id \in iter[1].startId .. iter[1].endId
            /\ \E n \in 1 .. Len(tradingDays) : out[1][b][k].date = tradingDays[n]
  /\ iter[1].pc = "done" =>
       \A id \in iter[1].startId .. iter[1].endId : \A n \in 1 .. Len(tradingDays) :
         \E b \in 1 .. Len(out[1]) : \E k \in 1 .. Len(out[1][b]) :
           /\ out[1][b][k].instrument_id = id
           /\ out[1][b][k].date = tradingDays[n]

\* C28: the calendar of generateTradingDays is the same in every host time
\* zone: it is the calendar of a host in UTC, it holds no Saturday and no
\* Sunday, no date twice, and every Monday to Friday of its range.
C28_SameCalendar ==
  constructed =>
    /\ tradingDays = generateTradingDays(UTC, startDay, endDay)
    /\ \A k \in 1 .. Len(tradingDays) : (tradingDays[k] + 3) % 7 \notin {0, 6}
    /\ \A k \in 2 .. Len(tradingDays) : tradingDays[k - 1] # tradingDays[k]
    /\ \A day \in startDay .. endDay :
         (day + 3) % 7 \notin {0, 6} =>
           \E k \in 1 .. Len(tradingDays) : tradingDays[k] = day

(***************************************************************************)
(* Further properties of the streaming loader, checked under SpecLoad and  *)
(* FairSpecLoad.                                                           *)
(***************************************************************************)
\* The positions <<b, k>> of the records of instrument id in the batches sent
\* to PostgreSQL.
SentFor(id) ==
  {p \in (1 .. Len(inserter.pgSent)) \X (1 .. BATCH_SIZE) :
     /\ p[2] <= Len(inserter.pgSent[p[1]])
     /\ inserter.pgSent[p[1]][p[2]].instrument_id = id}

\* What holds of the chunk being processed and of the ids generated: the
\* chunk starts right after the last id processed, holds 1 to
\* INSTRUMENTS_PER_CHUNK ids and ends at TOTAL_INSTRUMENTS at most; the
\* batches come in ascending order of instrument id; at the end every id of
\* 1 .. TOTAL_INSTRUMENTS has been generated, once for every calendar day.
ChunkRanges ==
  /\ main.pc \in {"forof", "await", "exit"} =>
       /\ main.startId = main.processedInstruments + 1
       /\ main.endId >= main.startId
       /\ main.endId - main.startId + 1 <= INSTRUMENTS_PER_CHUNK
       /\ main.endId <= TOTAL_INSTRUMENTS
       /\ iter[1].startId = main.startId
       /\ iter[1].endId = main.endId
  /\ \A b \in 2 .. Len(inserter.pgSent) :
       inserter.pgSent[b - 1][1].instrument_id <= inserter.pgSent[b][1].instrument_id
  /\ \A b \in 1 .. Len(inserter.pgSent) :
       inserter.pgSent[b][1].instrument_id \in 1 .. main.endId
  /\ main.pc \in {"results", "end"} =>
       /\ main.processedInstruments = TOTAL_INSTRUMENTS
       /\ \A id \in 1 .. TOTAL_INSTRUMENTS :
            Cardinality(SentFor(id)) = Len(tradingDays)

\* What holds of every step that ends a chunk: the ids processed grow to the
\* chunk's last id.
ChunkAdvance ==
  main'.processedInstruments # main.processedInstruments =>
    /\ main'.processedInstruments = main.endId
    /\ main.endId > main.processedInstruments
    /\ main'.startId = main.endId + 1 \/ main'.startId > TOTAL_INSTRUMENTS

\* C23: the chunk loop of main partitions the ids 1 .. TOTAL_INSTRUMENTS into
\* ranges that are disjoint, contiguous, processed in ascending order, of at
\* most INSTRUMENTS_PER_CHUNK ids and within TOTAL_INSTRUMENTS, and every id
\* is generated exactly once.
C23_Partition == []ChunkRanges /\ [][ChunkAdvance]_vars

\* A run that has ended after more than one chunk.
C23_Witness ==
  /\ main.pc = "end"
  /\ main.startId > TOTAL_INSTRUMENTS
  /\ main.endId = TOTAL_INSTRUMENTS
  /\ Len(tradingDays) >= 3
  /\ Len(inserter.pgSent) >= 2 * TOTAL_INSTRUMENTS

\* The number of records of the first n batches sent.
RECURSIVE RecordsSent(_)
RecordsSent(n) ==
  IF n = 0 THEN 0 ELSE RecordsSent(n - 1) + Len(inserter.pgSent[n])

\* C24: whenever the Promise.all of a batch has resolved, pgInsertCount and
\* chInsertCount both equal the number of records yielded so far, and after
\* a successful run total_records is TOTAL_INSTRUMENTS x |calendar|.
C24_Counts ==
  /\ (main.pc # "connect" /\ PromiseAll(inserter) = "fulfilled") =>
       /\ inserter.pgInsertCount = RecordsSent(Len(inserter.pgSent))
       /\ inserter.chInsertCount = RecordsSent(Len(inserter.pgSent))
       /\ Len(inserter.pgSent) >= Len(out[1])
  /\ main.pc \in {"results", "end"} =>
       total_records = TOTAL_INSTRUMENTS * Len(tradingDays)

\* The results of a run whose batches were not all of one record.
C24_Witness ==
  /\ main.pc = "results"
  /\ total_records = TOTAL_INSTRUMENTS * Len(tradingDays)
  /\ total_records > Len(inserter.pgSent)
  /\ Len(inserter.pgSent) > 0

\* Whether a backend has rejected the insert of a batch.
Rejected == inserter.pgRejected \/ inserter.chRejected

\* What holds of every step made after a rejection: no batch is generated,
\* none is sent.
NothingAfterRejection ==
  Rejected =>
    /\ inserter'.pgSent = inserter.pgSent
    /\ inserter'.chSent = inserter.chSent
    /\ iter' = iter
    /\ out' = out
    /\ calls' = calls

\* C29: once a backend has rejected the insert of a batch, no later batch is
\* generated or sent to either backend, the results are not saved, and the
\* process ends with the exit status of a failure; no batch is sent twice.
C29_RejectionIsFatal ==
  /\ [](Rejected => main.pc \in {"await", "exit"})
  /\ [](\A j \in 1 .. Len(inserter.pgSent) : \A k \in 1 .. (j - 1) :
          inserter.pgSent[j] # inserter.pgSent[k])
  /\ [][NothingAfterRejection]_vars
  /\ (Rejected ~> main.pc = "exit")

\* The process has exited after ClickHouse rejected a batch that was not the
\* generator's last.
C29_Witness ==
  /\ main.pc = "exit"
  /\ inserter.chRejected
  /\ ~inserter.pgRejected
  /\ Len(inserter.pgSent) >= 2
  /\ iter[1].pc = "yield118"

\* C27: every connection the script has opened is closed when the script
\* ends, whether it ends after its results, in its catch branch or by a
\* rejection of main.
C27_ConnectionsClosed ==
  main.pc \in {"end", "exit", "rejected"} =>
    /\ ~inserter.pgOpen
    /\ ~inserter.chOpen

(***************************************************************************)
(* A further property of seedData, checked under SpecSeed.                 *)
(***************************************************************************)
\* C25: in seedData a batch is either stored in all three backends and
\* counted in totalInserted, or stored in none and not counted.
C25_AllOrNothing ==
  \A k \in 1 .. Len(seeder.calls) :
    IF seeder.calls[k].error = "none"
    THEN seeder.calls[k].stored = {"pg", "ch", "ts"}
    ELSE seeder.calls[k].stored = {}

(***************************************************************************)
(* The parallel benchmark (part_004).  runParallelBenchmarks walks the     *)
(* concurrency levels; at each level it awaits benchmarkPostgreSQLParallel, *)
(* pauses, and awaits benchmarkClickHouseParallel, inside one try whose     *)
(* catch logs the error.  The two methods have one shape: generate the      *)
(* queries, open `concurrency` connections with Promise.all (before the     *)
(* try), let every connection run its share of the queries one after the    *)
(* other while the connections run side by side, and end every connection   *)
(* in the finally.                                                          *)
(*                                                                         *)
(* bench.pc is the position of runParallelBenchmarks: "level" (head of the  *)
(* loop), "connect" (awaiting the connections), "run" (awaiting the         *)
(* queries), "closing" (awaiting the ends in the finally), "pause" (the     *)
(* timeout between the two databases), "catch" and "done".  bench.conn      *)
(* holds the connections of the current level per database; a connection    *)
(* is "pending", "open", "failed", "closing" or "closed", has the queries   *)
(* of `share` to run, has issued `next` of them, pushed `timings`           *)
(* durations and has the queries of `inflight` in flight.  bench.issued     *)
(* logs, per query, the connections that issued it.  bench.leaked holds the *)
(* databases with an open connection of an earlier level that nothing       *)
(* refers to any more.                                                      *)
(*                                                                         *)
(* A query is modelled by its index in the generated array: its random      *)
(* instrument and date range play no part in the scheduling.  Ending a      *)
(* connection aborts the query it has in flight.  The attempts still        *)
(* pending when Promise.all rejects are settled in the same step: nothing   *)
(* awaits them afterwards.                                                  *)
(***************************************************************************)
\* Line 187.
concurrencyLevels == <<1, 2, 4, 6>>

\* Lines 98 and 143: generateQueries(concurrency * 4).
QueriesPerConnection == 4

\* Lines 54 to 60: an array of `count` queries.
generateQueries(count) == [i \in 1 .. count |-> i - 1]

\* Lines 24 to 34: a connection whose connect or ping is awaited.
NewConnection ==
  [status |-> "pending", share |-> <<>>, next |-> 0, timings |-> 0, inflight |-> {}]

ArrayIndexes(array) == [i \in 1 .. Len(array) |-> i - 1]

clientQueriesByCount(queries, concurrency, index) ==
  [k \in 1 .. Len(SelectSeq(ArrayIndexes(queries),
                            LAMBDA i : i % QueriesPerConnection = index)) |->
     queries[SelectSeq(ArrayIndexes(queries),
                       LAMBDA i : i % QueriesPerConnection = index)[k] + 1]]
\* Lines 110 and 155: queries.filter((_, i) => i % concurrency === index).
clientQueries(queries, concurrency, index) ==
  [k \in 1 .. Len(SelectSeq(ArrayIndexes(queries),
                            LAMBDA i : i % concurrency = index)) |->
     queries[SelectSeq(ArrayIndexes(queries),
                       LAMBDA i : i % concurrency = index)[k] + 1]]

\* Lines 113 to 116: the head of the for-of loop of one connection, which
\* issues the connection's next query, if it has one left.
issueNext(cn) ==
  IF cn.next < Len(cn.share)
  THEN [cn EXCEPT !.inflight = {cn.share[cn.next + 1]}, !.next = @ + 1]
  ELSE cn

\* The async function of a connection has returned its timings.
returned(cn) == cn.next = Len(cn.share) /\ cn.inflight = {}

RECURSIVE sumTimings(_, _)
\* Lines 122 and 129: allResults.flat().length.
sumTimings(conns, k) ==
  IF k = 0 THEN 0 ELSE conns[k].timings + sumTimings(conns, k - 1)

\* Line 138: connections.map(client => client.end()), or close() at line
\* 181: every connection is asked to end.
endAll(conns) == [k \in 1 .. Len(conns) |-> [conns[k] EXCEPT !.status = "closing",
                                                             !.inflight = {}]]

endsNotAwaited(conns) == TRUE
\* Lines 138 and 181: await Promise.all(...) of the ends.
allEnded(conns) == \A k \in 1 .. Len(conns) : conns[k].status = "closed"

\* The connections of `conns` that are open.
openIn(conns) == Cardinality({k \in 1 .. Len(conns) : conns[k].status = "open"})

\* Lines 97 to 105, or 142 to 150: the call of a benchmark method up to its
\* await of the connections.
BenchStart(b, database) ==
  [b EXCEPT !.pc = "connect",
            !.database = database,
            !.concurrency = concurrencyLevels[b.level],
            !.queries = generateQueries(concurrencyLevels[b.level] * QueriesPerConnection),
            !.conn = [@ EXCEPT ![database] =
                        [k \in 1 .. concurrencyLevels[b.level] |-> NewConnection]],
            !.issued = [q \in 1 .. concurrencyLevels[b.level] * QueriesPerConnection |-> <<>>],
            !.result = <<>>,
            !.failed = FALSE]

BenchUnchanged ==
  /\ UNCHANGED <<tz, startDay, endDay, constructed, tradingDays, iter, out, calls,
                 rngX, first, between, last>>
  /\ UNCHANGED <<main, inserter, seeder, db, probe>>

\* Lines 189 to 195: the next concurrency level begins with PostgreSQL.
BenchLevel ==
  /\ bench.pc = "level"
  /\ bench.level <= Len(concurrencyLevels)
  /\ bench' = BenchStart([bench EXCEPT !.logged = FALSE,
                                       !.conn = [pg |-> <<>>, ch |-> <<>>]], "pg")
  /\ BenchUnchanged

\* Line 217: the loop is over and the results are returned.
BenchDone ==
  /\ bench.pc = "level"
  /\ bench.level > Len(concurrencyLevels)
  /\ bench' = [bench EXCEPT !.pc = "done"]
  /\ BenchUnchanged

\* The connections whose first query is the query q.
firstIssuers(b, q) ==
  SelectSeq(ArrayIndexes(b.conn[b.database]),
            LAMBDA index :
              /\ Len(clientQueries(b.queries, b.concurrency, index)) > 0
              /\ clientQueries(b.queries, b.concurrency, index)[1] = q)

\* Lines 106 to 120 (151 to 165): with every connection open, the map over
\* the connections runs each async function up to its first await, and the
\* method awaits them all.
startLoops(b) ==
  [b EXCEPT
     !.conn = [@ EXCEPT ![b.database] =
                 [k \in 1 .. Len(@) |->
                    issueNext([@[k] EXCEPT
                                 !.share = clientQueries(b.queries, b.concurrency, k - 1)])]],
     !.issued = [q \in 1 .. Len(@) |-> @[q] \o firstIssuers(b, q - 1)],
     !.pc = "run"]

\* Lines 120 to 139 (165 to 182): when every async function has returned,
\* Promise.all resolves, the result is built and the finally ends the
\* connections.
settle(b) ==
  IF \A k \in 1 .. b.concurrency : returned(b.conn[b.database][k])
  THEN [b EXCEPT !.result = <<[database |-> b.database,
                               concurrency |-> b.concurrency,
                               queries_completed |->
                                 sumTimings(b.conn[b.database], b.concurrency)]>>,
                 !.conn = [@ EXCEPT ![b.database] = endAll(@)],
                 !.pc = "closing"]
  ELSE b

\* Lines 24 to 34 and 99 to 101: one connection attempt succeeds; the last
\* one resolves Promise.all.
ConnectionOpens(k) ==
  /\ bench.pc = "connect"
  /\ k \in 1 .. bench.concurrency
  /\ bench.conn[bench.database][k].status = "pending"
  /\ \E b \in {[bench EXCEPT !.conn[bench.database][k].status = "open"]} :
       bench' = IF \A j \in 1 .. b.concurrency : b.conn[b.database][j].status = "open"
                THEN settle(startLoops(b))
                ELSE b
  /\ BenchUnchanged

\* Lines 24 to 34 and 99 to 101: one connection attempt fails, Promise.all
\* rejects and, the await being outside the try, so does the method.  The
\* attempts of `orphans` succeed all the same.
ConnectionFails(k) ==
  /\ bench.pc = "connect"
  /\ k \in 1 .. bench.concurrency
  /\ bench.conn[bench.database][k].status = "pending"
  /\ \E orphans \in SUBSET {j \in 1 .. bench.concurrency :
                              /\ j # k
                              /\ bench.conn[bench.database][j].status = "pending"} :
       bench' = [bench EXCEPT
                   !.conn[bench.database] =
                     [j \in 1 .. bench.concurrency |->
                        IF @[j].status = "open" \/ j \in orphans
                        THEN [@[j] EXCEPT !.status = "open"]
                        ELSE [@[j] EXCEPT !.status = "failed"]],
                   !.queries = <<>>,
                   !.issued = <<>>,
                   !.pc = "catch"]
  /\ BenchUnchanged

\* Lines 113 to 117 (158 to 162): the query of a connection succeeds, its
\* duration is pushed and the loop goes on with the connection's next
\* query or returns the timings.
QueryFulfils(k) ==
  /\ bench.pc = "run"
  /\ k \in 1 .. bench.concurrency
  /\ bench.conn[bench.database][k].inflight # {}
  /\ \E cn \in {issueNext([bench.conn[bench.database][k] EXCEPT
                              !.timings = @ + 1, !.inflight = {}])} :
       bench' = settle([bench EXCEPT
                          !.conn[bench.database][k] = cn,
                          !.issued = [q \in 1 .. Len(@) |->
                                        IF q - 1 \in cn.inflight
                                        THEN @[q] \o <<k - 1>> ELSE @[q]]])
  /\ BenchUnchanged

\* Lines 113 to 120 and 137 to 139 (158 to 165, 180 to 182): the query of a
\* connection fails, its async function and Promise.all reject, and the
\* finally ends the connections; the timings are lost.
QueryRejects(k) ==
  /\ bench.pc = "run"
  /\ k \in 1 .. bench.concurrency
  /\ bench.conn[bench.database][k].inflight # {}
  /\ bench' = [bench EXCEPT
                 !.conn[bench.database] =
                   [j \in 1 .. bench.concurrency |->
                      [NewConnection EXCEPT !.status = "closing"]],
                 !.queries = <<>>,
                 !.issued = <<>>,
                 !.failed = TRUE,
                 !.pc = "closing"]
  /\ BenchUnchanged

\* Lines 138 and 181: the end of one connection completes.
ConnectionCloses(database, k) ==
  /\ k \in 1 .. Len(bench.conn[database])
  /\ bench.conn[database][k].status = "closing"
  /\ bench' = [bench EXCEPT !.conn[database][k].status = "closed"]
  /\ BenchUnchanged

\* Lines 137 to 139 and 193 to 205: the finally is over and the method
\* returns its result, which runParallelBenchmarks pushes, or rejects.
BenchReturn ==
  /\ bench.pc = "closing"
  /\ allEnded(bench.conn[bench.database])
  /\ bench' = IF bench.failed
              THEN [bench EXCEPT !.pc = "catch"]
              ELSE IF bench.database = "pg"
              THEN [bench EXCEPT !.pc = "pause"]
              ELSE [bench EXCEPT !.pc = "level", !.level = @ + 1]
  /\ BenchUnchanged

\* Lines 199 to 203: after the pause, the ClickHouse run of the level.
BenchPause ==
  /\ bench.pc = "pause"
  /\ bench' = BenchStart(bench, "ch")
  /\ BenchUnchanged

\* Lines 212 to 214: the catch logs the error and the loop goes on.  The
\* connections that were opened and not ended stay open.
BenchCatch ==
  /\ bench.pc = "catch"
  /\ bench' = [bench EXCEPT
                 !.logged = TRUE,
                 !.failed = FALSE,
                 !.leaked = @ \cup {database \in {"pg", "ch"} :
                                       openIn(bench.conn[database]) > 0},
                 !.conn = [pg |-> <<>>, ch |-> <<>>],
                 !.level = @ + 1,
                 !.pc = "level"]
  /\ BenchUnchanged

NextBench ==
  \/ BenchLevel
  \/ BenchDone
  \/ \E k \in 1 .. bench.concurrency : ConnectionOpens(k)
  \/ \E k \in 1 .. bench.concurrency : ConnectionFails(k)
  \/ \E k \in 1 .. bench.concurrency : QueryFulfils(k)
  \/ \E k \in 1 .. bench.concurrency : QueryRejects(k)
  \/ \E database \in {"pg", "ch"} : \E k \in 1 .. Len(bench.conn[database]) :
       ConnectionCloses(database, k)
  \/ BenchReturn
  \/ BenchPause
  \/ BenchCatch

SpecBench == InitPrice /\ [][NextBench]_vars

FairSpecBench == SpecBench /\ WF_vars(NextBench)

(***************************************************************************)
(* Properties of the parallel benchmark, checked under SpecBench and       *)
(* FairSpecBench.                                                          *)
(***************************************************************************)
\* The connections of the run in progress.
Running == bench.conn[bench.database]

\* The run in progress has built its result.
Succeeded == bench.result # <<>>

\* No connection has more than one query in flight.
OneInFlight ==
  \A database \in {"pg", "ch"} : \A k \in 1 .. Len(bench.conn[database]) :
    Cardinality(bench.conn[database][k].inflight) <= 1

\* No query is issued twice, and the connections' shares are disjoint.
AtMostOnce ==
  /\ \A q \in 1 .. Len(bench.issued) : Len(bench.issued[q]) <= 1
  /\ \A j, k \in 1 .. Len(Running) :
       j # k => \A m \in 1 .. Len(Running[j].share) : \A n \in 1 .. Len(Running[k].share) :
                  Running[j].share[m] # Running[k].share[n]

\* Until a first query has settled, every connection has a query in flight.
SideBySide ==
  (bench.pc = "run" /\ \A k \in 1 .. Len(Running) : Running[k].timings = 0)
    => \A k \in 1 .. Len(Running) : Running[k].inflight # {}

\* On success every query was issued once and every connection ran 4.
AllOnce ==
  Succeeded =>
    /\ Len(bench.queries) = 4 * bench.concurrency
    /\ \A q \in 1 .. Len(bench.queries) : Len(bench.issued[q]) = 1
    /\ \A k \in 1 .. Len(Running) :
         Running[k].timings = 4 /\ Running[k].next = 4 /\ Running[k].inflight = {}
    /\ bench.result[1].queries_completed = 4 * bench.concurrency

\* C26: at concurrency c the 4c queries are partitioned among the c
\* connections: every query is executed exactly once by exactly one
\* connection, every connection executes exactly 4 queries and has at most
\* one in flight while the connections run side by side, and on success
\* queries_completed = 4c.
C26_Partitioned == OneInFlight /\ AtMostOnce /\ SideBySide /\ AllOnce

\* C26 witness: the ClickHouse run at concurrency 6 has succeeded with its
\* 24 queries completed.
C26_Witness ==
  /\ Succeeded
  /\ bench.database = "ch"
  /\ bench.concurrency = 6
  /\ bench.result[1].queries_completed = 24

\* While a ClickHouse connection of a level exists, the PostgreSQL
\* connections of the level are all closed.
OneDatabaseAtATime ==
  bench.conn.ch # <<>> =>
    /\ Len(bench.conn.pg) = bench.concurrency
    /\ \A k \in 1 .. Len(bench.conn.pg) :
         bench.conn.pg[k].status = "closed" /\ bench.conn.pg[k].inflight = {}

\* A step of runParallelBenchmarks keeps the order: the levels go up one by
\* one, a run opens as many connections as its level says, the PostgreSQL
\* run of a level starts at the head of the loop, where nothing else can
\* happen while a level is left, and the ClickHouse run after the pause that
\* follows the PostgreSQL result of the same level, and the catch logs the
\* error and goes on to the next level.
InOrderStep ==
  /\ bench'.level \in {bench.level, bench.level + 1}
  /\ (bench.pc = "level" /\ bench.level \in 1 .. 4) =>
       bench'.pc = "connect" /\ bench'.database = "pg"
  /\ (bench.pc # "connect" /\ bench'.pc = "connect") =>
       /\ bench'.level = bench.level
       /\ bench'.concurrency = <<1, 2, 4, 6>>[bench'.level]
       /\ Len(bench'.conn[bench'.database]) = bench'.concurrency
       /\ bench'.database = "pg" => bench.pc = "level"
       /\ bench'.database = "ch" =>
            /\ bench.pc = "pause"
            /\ bench.result # <<>>
            /\ bench.result[1].database = "pg"
            /\ bench.result[1].concurrency = bench'.concurrency
  /\ bench.pc = "catch" =>
       /\ bench'.logged
       /\ bench'.pc = "level"
       /\ bench'.level = bench.level + 1

\* C30: runParallelBenchmarks runs the levels 1, 2, 4, 6 in this order and,
\* within a level, PostgreSQL strictly before ClickHouse: every PostgreSQL
\* connection of a level is closed before a ClickHouse connection of the
\* level is opened, and an error at a level is logged without preventing
\* the later levels from running: the loop reaches its end past level 6.
C30_LevelsInOrder ==
  /\ []OneDatabaseAtATime
  /\ [][InOrderStep]_vars
  /\ <>(bench.pc = "done" /\ bench.level = 5)

\* C30 witness: after an error at an earlier level, which left a connection
\* open, the ClickHouse run of level 6 has its queries in flight and the 6
\* PostgreSQL connections of the level are closed.
C30_Witness ==
  /\ bench.pc = "run"
  /\ bench.database = "ch"
  /\ bench.concurrency = 6
  /\ bench.leaked # {}
  /\ Len(bench.conn.pg) = 6
  /\ allEnded(bench.conn.pg)

=============================================================================
